---- MODULE Spec2Model ----
(***************************************************************************)
(* GrokRecipeSnap: the batch generation orchestrator (generateRecipes /   *)
(* generateArticles), the rate limiter, the recipe response parser and    *)
(* the photo-capture hook, modelled as state machines.                    *)
(***************************************************************************)
EXTENDS Integers, Sequences, FiniteSets, TLC

(***************************************************************************)
(* Bounds of the model.                                                    *)
(***************************************************************************)
\* largest `count` a batch is started with
MaxCount == 4
MaxRows == 4
MaxBatches == 3
TopicCount == 3
\* largest `count` of the batches of SpecSmall
SmallCount == 3
\* the capture groups a pattern of the program has at most
MaxGroups == 2
\* the largest repetition count tried for x* and x+
Unbounded == 1000
\* processPhoto invocations that can be pending at once
MaxUploads == 2
\* the callers of enforceRateLimit
MaxCallers == 3
\* the clock advances in steps of TickMs up to MaxClock; at most MaxReleases
\* requests are released
TickMs == 250
MaxClock == 2500
MaxReleases == 3
\* the longest string (in lexemes) cleanMarkdown is applied to twice
MaxCleanLen == 4
\* the calls of parseRecipeFromResponse that are compared
MaxCalls == 3
\* the content deltas of one streamed chat response
MaxDeltas == 2

(***************************************************************************)
(* Program constants.                                                      *)
(***************************************************************************)
maxRetries == 5
concurrentLimit == 2
maxDuplicateTitles == 8
\* sleep(500 * attempt) after a duplicate title, sleep(1000 * attempt) after a failure
DuplicateBackoffMs == 500
FailureBackoffMs == 1000
\* requests per second, and one second in milliseconds
API_RATE_LIMIT == 2
API_RATE_WINDOW == 1000
\* count: number = 4, the default of generateRecipes and generateArticles
DefaultCount == 4
\* servings: ... || 4
DefaultServings == 4

VARIABLES
  \* ---- generateRecipes / generateArticles (one batch) ----
  count,            \* the count argument
  mainPc,           \* "init" | "awaiting" (at await Promise.all) | "complete"
  currentIndex,     \* let currentIndex
  activePromises,   \* let activePromises
  promises,         \* indices whose promise has been pushed to `promises`
  awaited,          \* the promises Promise.all was called with
  pc,               \* per index: "idle" | "calling" | "sleeping" | "done"
  attempt,          \* per index: let attempt
  duplicateCount,   \* per index: let duplicateCount
  usedTitles,       \* the Set usedTitles / usedTopics (normalized titles)
  allGenerated,     \* allGeneratedRecipes[index]: delivered title or NoTitle
  sleepMs,          \* per index: argument of the pending sleep(), 0 if none
  \* ---- observations of the batch (history) ----
  invocations,      \* per index: generator calls made by the running task function
  generatedCalls,   \* per index: number of onRecipeGenerated calls
  errorCalls,       \* per index: number of onRecipeError calls
  completeCalls,    \* number of onComplete calls
  cache,            \* what setCachedData stored, or NoCache
  \* ---- parseRecipeFromResponse (one call) ----
  response,         \* the response the API returned (its description)
  parsed,           \* what parseRecipeFromResponse returned, or NoResult
  \* ---- usePhotoCapture and the Index page ----
  photo,            \* useState photo: NoPhoto or the photo source
  isCapturingPhoto, \* useState isCapturingPhoto
  isProcessing,     \* useState isProcessing
  error,            \* useState error: NoError or the message
  recipeData,       \* useState recipeData: NoRecipe or result.recipe
  generatedRecipe,  \* useState generatedRecipe (Index): NoRecipe or safeRecipe
  uploads,          \* per slot: a FileReader reading or a processPhoto awaiting analyzeFood
  \* ---- enforceRateLimit (one module's limiter) ----
  clock,            \* Date.now()
  lastApiCall,      \* let lastApiCall
  callers,          \* per caller: "idle" or "sleeping" with the time its timer is due
  releases,         \* the times at which enforceRateLimit returned (history)
  \* ---- RecipeCard (one render) ----
  cardInstructions, \* the prop recipe.instructions, or NoProp before the card is shown
  processedResult,  \* what the processedInstructions memo produced, or NotRendered
  \* ---- cleanMarkdown applied to its own result ----
  cleanInput,       \* the string s
  cleanedOnce,      \* cleanMarkdown(s), or NotCleaned
  cleanedTwice,     \* cleanMarkdown(cleanMarkdown(s)), or NotCleaned
  \* ---- repeated calls of parseRecipeFromResponse ----
  parseCalls,       \* the calls made so far: the response and the value returned (history)
  stepsLastIndex,   \* lastIndex of the numberedStepsPattern object made by the latest call
  \* ---- generateArticles / _generateArticleForTopic (one topic) ----
  articlePc,        \* "idle" | "fetching" | "image" | "sleeping" | "done" | "failed"
  articleAttempt,   \* let attempt of the retry loop
  articleContent,   \* data.choices[0].message.content of the latest response, or NoContent
  normalizedData,   \* the normalized articleData of the attempt in progress, or NoArticle
  articleFailures,  \* what each failed attempt threw from (history)
  articleReturned,  \* the Article returned, or NoArticle
  \* ---- sendMessageToExpert / sendMessageToChef (one streamed response) ----
  chatService,      \* "expert" (sendMessageToExpert) or "chef" (sendMessageToChef)
  sseDeltas,        \* the content deltas the server sends, in order
  sseUnread,        \* the part of the SSE byte stream that reader.read() has not returned
  accumulatedResponse, \* let accumulatedResponse
  lastChunk,        \* the arguments of the latest onChunk call, or NoChunk
  \* ---- generateImageFromPrompt (one call) ----
  imagePc,          \* "idle" | "limiting" | "fetching" | "sleeping" | "json" | "loading" | "settled"
  imageRetries,     \* let retries
  imageResponse,    \* let response: NoFetchResponse or the status of the latest response
  imageEvents,      \* what the API call and the image load did, in order (history)
  imageOutcome,     \* how the promise settled, or Pending
  \* ---- the record store, and one call of generateRecipe / generateArticle ----
  tableRows,        \* popular_recipes / food_articles: the number of rows per title
  storeKind,        \* "recipe" (generateRecipe) or "article" (generateArticle)
  storePc,          \* "idle" | "generating" | "storing" | "storingAgain" | "settled"
  storeItem,        \* the title of the generated item, or NoTitle
  rowsBefore,       \* tableRows when the call was made (history)
  storeOutcome,     \* "pending" | "returned" | the message of the error thrown
  \* ---- the Index page: popular recipes ----
  pagePc,                   \* "mount" | "querying" | "deleting" | "generating" | "idle"
  localRecipes,             \* useState<Recipe[]>: the recipes, each with the batch that generated it
  isLoadingPopularRecipes,  \* useState(true)
  popularRecipesError,      \* useState<string | null>: NoError or the message
  batchNo,                  \* how many times the page has cleared the list and called generateRecipes
  staleCalls,               \* <<batch, index>> of the tasks of earlier batches still in flight
  \* ---- the articles page ----
  articlesPc,       \* "mount" | "querying" | "deleting" | "generating" | "idle"
  forceRefresh,     \* the argument of the fetchArticles call in flight
  closureLength,    \* articles.length as the fetchArticles closure in flight sees it
  articles,         \* useState<Article[]>: the number of articles of the list
  isLoading,        \* useState(true)
  articlesError,    \* useState<string | null>: the parts of the message, in order
  loadingStates,    \* useState<boolean[]>
  topicPc,          \* per topic of generateArticlesFromTopics: "none" | "pending" | "ok" | "failed"
  completedCount    \* let completedCount

batchVars == <<count, mainPc, currentIndex, activePromises, promises, awaited, pc,
               attempt, duplicateCount, usedTitles, allGenerated, sleepMs,
               invocations, generatedCalls, errorCalls,
               completeCalls, cache>>
parseVars == <<response, parsed>>
photoVars == <<photo, isCapturingPhoto, isProcessing, error, recipeData, generatedRecipe,
               uploads>>
rateVars == <<clock, lastApiCall, callers, releases>>

cardVars == <<cardInstructions, processedResult>>
cleanVars == <<cleanInput, cleanedOnce, cleanedTwice>>
pureVars == <<parseCalls, stepsLastIndex>>
articleVars == <<articlePc, articleAttempt, articleContent, normalizedData, articleFailures,
                 articleReturned>>
chatVars == <<chatService, sseDeltas, sseUnread, accumulatedResponse, lastChunk>>
secondVars == <<cardVars, cleanVars, pureVars, articleVars>>
imageVars == <<imagePc, imageRetries, imageResponse, imageEvents, imageOutcome>>
storeVars == <<storeKind, storePc, storeItem, rowsBefore, storeOutcome>>
pageVars == <<pagePc, localRecipes, isLoadingPopularRecipes, popularRecipesError, batchNo,
              staleCalls>>
listVars == <<articlesPc, forceRefresh, closureLength, articles, isLoading, articlesError,
              loadingStates, topicPc, completedCount>>
thirdVars == <<chatVars, imageVars, tableRows, storeVars, pageVars, listVars>>
\* the state of the components that are modelled further down
laterVars == <<cardVars, cleanVars, pureVars, articleVars, thirdVars>>
coreVars == <<batchVars, parseVars, photoVars, rateVars>>
\* what the actions of one component leave unchanged
exceptChat == <<coreVars, secondVars, imageVars, tableRows, storeVars, pageVars, listVars>>
exceptImage == <<coreVars, secondVars, chatVars, tableRows, storeVars, pageVars, listVars>>
exceptStore == <<coreVars, secondVars, chatVars, imageVars, pageVars, listVars>>
exceptList == <<coreVars, secondVars, chatVars, imageVars, tableRows, storeVars, pageVars>>

vars == <<batchVars, parseVars, photoVars, rateVars, laterVars>>

\* RecipeCard is not mounted
NoProp == <<>>
NotRendered == <<>>
CardIdle == cardInstructions = NoProp /\ processedResult = NotRendered
\* cleanMarkdown has not been called
NotCleaned == <<>>
CleanIdle == cleanInput = <<>> /\ cleanedOnce = NotCleaned /\ cleanedTwice = NotCleaned
\* parseRecipeFromResponse has not been called
PureIdle == parseCalls = <<>> /\ stepsLastIndex = 0
\* no article is being generated
NoContent == [kind |-> "none", title |-> "absent", summary |-> "absent", content |-> "absent"]
NoArticle == <<>>
ArticleIdle ==
  /\ articlePc = "idle" /\ articleAttempt = 0 /\ articleContent = NoContent
  /\ normalizedData = NoArticle /\ articleFailures = <<>> /\ articleReturned = NoArticle
\* no chat response is being streamed
NoChunk == [text |-> <<"<none>">>, done |-> FALSE]
ChatIdle ==
  /\ chatService = "expert"
  /\ sseDeltas = <<>> /\ sseUnread = <<>> /\ accumulatedResponse = <<>> /\ lastChunk = NoChunk
\* generateImageFromPrompt has not been called
NoFetchResponse == "<undefined>"
Pending == [kind |-> "pending", value |-> <<>>]
ImageIdle ==
  /\ imagePc = "idle" /\ imageRetries = 0 /\ imageResponse = NoFetchResponse
  /\ imageEvents = <<>> /\ imageOutcome = Pending
\* the Index page is not mounted
NoPageError == <<"<null>">>
PageIdle ==
  /\ pagePc = "mount" /\ localRecipes = <<>> /\ isLoadingPopularRecipes = TRUE
  /\ popularRecipesError = NoPageError /\ batchNo = 0 /\ staleCalls = {}
\* the articles page is not mounted
Topics == 0 .. (TopicCount - 1)
ListIdle ==
  /\ articlesPc = "mount" /\ forceRefresh = FALSE /\ closureLength = 0 /\ articles = 0
  /\ isLoading = TRUE /\ articlesError = <<>> /\ loadingStates = <<>>
  /\ topicPc = [i \in Topics |-> "none"] /\ completedCount = 0
SecondIdle == CardIdle /\ CleanIdle /\ PureIdle /\ ArticleIdle

(***************************************************************************)
(* Tables of the lexemes that occur in the patterns and in the responses.  *)
(***************************************************************************)
\* String.prototype.toLowerCase of a lexeme (the lexemes that have capitals)
LowerTok(t) ==
  CASE t = "About" -> "about"
    [] t = "Analysis" -> "analysis"
    [] t = "Bake" -> "bake"
    [] t = "Bar" -> "bar"
    [] t = "Calories" -> "calories"
    [] t = "Carbohydrates" -> "carbohydrates"
    [] t = "Carbs" -> "carbs"
    [] t = "Categories" -> "categories"
    [] t = "Cook" -> "cook"
    [] t = "DIRECTIONS" -> "directions"
    [] t = "Description" -> "description"
    [] t = "Difficulty" -> "difficulty"
    [] t = "Directions" -> "directions"
    [] t = "Dish" -> "dish"
    [] t = "Easy" -> "easy"
    [] t = "Energy" -> "energy"
    [] t = "Facts" -> "facts"
    [] t = "Fat" -> "fat"
    [] t = "Fiber" -> "fiber"
    [] t = "Foo" -> "foo"
    [] t = "Homemade" -> "homemade"
    [] t = "INGREDIENTS" -> "ingredients"
    [] t = "INSTRUCTIONS" -> "instructions"
    [] t = "Info" -> "info"
    [] t = "Information" -> "information"
    [] t = "Ingredients" -> "ingredients"
    [] t = "Instructions" -> "instructions"
    [] t = "Macros" -> "macros"
    [] t = "Medium" -> "medium"
    [] t = "Method" -> "method"
    [] t = "Mix" -> "mix"
    [] t = "No" -> "no"
    [] t = "Notes" -> "notes"
    [] t = "Nutrition" -> "nutrition"
    [] t = "Prep" -> "prep"
    [] t = "Protein" -> "protein"
    [] t = "Recipe" -> "recipe"
    [] t = "Sat" -> "sat"
    [] t = "Sauce" -> "sauce"
    [] t = "Serve" -> "serve"
    [] t = "Serves" -> "serves"
    [] t = "Serving" -> "serving"
    [] t = "Servings" -> "servings"
    [] t = "Sodium" -> "sodium"
    [] t = "Steps" -> "steps"
    [] t = "Sugar" -> "sugar"
    [] t = "T" -> "t"
    [] t = "Tags" -> "tags"
    [] t = "Time" -> "time"
    [] t = "Tips" -> "tips"
    [] t = "Title" -> "title"
    [] t = "Total" -> "total"
    [] t = "Try" -> "try"
    [] t = "Unknown" -> "unknown"
    [] t = "Values" -> "values"
    [] t = "Yield" -> "yield"
    [] OTHER -> t

\* the number of characters of a lexeme
TokLen(t) ==
  CASE t = "About" -> 5
    [] t = "Analysis" -> 8
    [] t = "Bake" -> 4
    [] t = "Bar" -> 3
    [] t = "Calories" -> 8
    [] t = "Carbohydrates" -> 13
    [] t = "Carbs" -> 5
    [] t = "Categories" -> 10
    [] t = "Cook" -> 4
    [] t = "DIRECTIONS" -> 10
    [] t = "Description" -> 11
    [] t = "Difficulty" -> 10
    [] t = "Directions" -> 10
    [] t = "Dish" -> 4
    [] t = "Easy" -> 4
    [] t = "Energy" -> 6
    [] t = "Facts" -> 5
    [] t = "Fat" -> 3
    [] t = "Fiber" -> 5
    [] t = "Foo" -> 3
    [] t = "Homemade" -> 8
    [] t = "INGREDIENTS" -> 11
    [] t = "INSTRUCTIONS" -> 12
    [] t = "Info" -> 4
    [] t = "Information" -> 11
    [] t = "Ingredients" -> 11
    [] t = "Instructions" -> 12
    [] t = "Macros" -> 6
    [] t = "Medium" -> 6
    [] t = "Method" -> 6
    [] t = "Mix" -> 3
    [] t = "No" -> 2
    [] t = "Notes" -> 5
    [] t = "Nutrition" -> 9
    [] t = "Prep" -> 4
    [] t = "Protein" -> 7
    [] t = "Recipe" -> 6
    [] t = "Sat" -> 3
    [] t = "Sauce" -> 5
    [] t = "Serve" -> 5
    [] t = "Serves" -> 6
    [] t = "Serving" -> 7
    [] t = "Servings" -> 8
    [] t = "Sodium" -> 6
    [] t = "Steps" -> 5
    [] t = "Sugar" -> 5
    [] t = "Tags" -> 4
    [] t = "Time" -> 4
    [] t = "Tips" -> 4
    [] t = "Title" -> 5
    [] t = "Total" -> 5
    [] t = "Try" -> 3
    [] t = "Unknown" -> 7
    [] t = "Values" -> 6
    [] t = "Yield" -> 5
    [] t = "about" -> 5
    [] t = "al" -> 2
    [] t = "amp" -> 3
    [] t = "approximately" -> 13
    [] t = "aration" -> 7
    [] t = "bake" -> 4
    [] t = "be" -> 2
    [] t = "butter" -> 6
    [] t = "calories" -> 8
    [] t = "carbs" -> 5
    [] t = "clearer" -> 7
    [] t = "combine" -> 7
    [] t = "cook" -> 4
    [] t = "could" -> 5
    [] t = "cup" -> 3
    [] t = "description" -> 11
    [] t = "detected" -> 8
    [] t = "difficulty" -> 10
    [] t = "dish" -> 4
    [] t = "fat" -> 3
    [] t = "fiber" -> 5
    [] t = "flour" -> 5
    [] t = "gt" -> 2
    [] t = "hot" -> 3
    [] t = "image" -> 5
    [] t = "ing" -> 3
    [] t = "ingredients" -> 11
    [] t = "instructions" -> 12
    [] t = "json" -> 4
    [] t = "lb" -> 2
    [] t = "level" -> 5
    [] t = "lt" -> 2
    [] t = "macros" -> 6
    [] t = "makes" -> 5
    [] t = "mins" -> 4
    [] t = "mix" -> 3
    [] t = "ml" -> 2
    [] t = "not" -> 3
    [] t = "nutrition" -> 9
    [] t = "of" -> 2
    [] t = "oil" -> 3
    [] t = "overall" -> 7
    [] t = "oz" -> 2
    [] t = "per" -> 3
    [] t = "preheat" -> 7
    [] t = "prep" -> 4
    [] t = "protein" -> 7
    [] t = "quot" -> 4
    [] t = "salt" -> 4
    [] t = "sat" -> 3
    [] t = "serve" -> 5
    [] t = "serves" -> 6
    [] t = "serving" -> 7
    [] t = "servings" -> 8
    [] t = "sodium" -> 6
    [] t = "stir" -> 4
    [] t = "sugar" -> 5
    [] t = "tags" -> 4
    [] t = "takes" -> 5
    [] t = "tbsp" -> 4
    [] t = "the" -> 3
    [] t = "time" -> 4
    [] t = "title" -> 5
    [] t = "to" -> 2
    [] t = "total" -> 5
    [] t = "tsp" -> 3
    [] t = "uploading" -> 9
    [] t = "urated" -> 6
    [] t = "warm" -> 4
    [] t = "yield" -> 5
    [] t = "15" -> 2
    [] t = "20" -> 2
    [] t = "30" -> 2
    [] t = "45" -> 2
    [] t = "300" -> 3
    [] OTHER -> 1

\* runs of digits, the lexemes matched by \d+
DigitTokens == {"0", "1", "2", "3", "4", "5", "15", "20", "30", "45", "300"}
\* parseInt(t, 10) of a run of digits
ParseInt(t) ==
  CASE t = "0" -> 0
    [] t = "1" -> 1
    [] t = "2" -> 2
    [] t = "3" -> 3
    [] t = "4" -> 4
    [] t = "5" -> 5
    [] t = "15" -> 15
    [] t = "20" -> 20
    [] t = "30" -> 30
    [] t = "45" -> 45
    [] t = "300" -> 300
    [] OTHER -> 0
\* the lexemes that begin with a capital letter, matched by [A-Z]
UpperTokens == {"About", "Analysis", "Bake", "Bar", "Calories", "Carbohydrates", "Carbs", "Categories", "Cook", "DIRECTIONS", "Description", "Difficulty", "Directions", "Dish", "Easy", "Energy", "Facts", "Fat", "Fiber", "Foo", "Homemade", "INGREDIENTS", "INSTRUCTIONS", "Info", "Information", "Ingredients", "Instructions", "Macros", "Medium", "Method", "Mix", "No", "Notes", "Nutrition", "Prep", "Protein", "Recipe", "Sat", "Sauce", "Serve", "Serves", "Serving", "Servings", "Sodium", "Steps", "Sugar", "T", "Tags", "Time", "Tips", "Title", "Total", "Try", "Unknown", "Values", "Yield"}

(***************************************************************************)
(* Strings.  A string of the parser is a sequence of lexemes: a            *)
(* punctuation or white-space character, a run of digits, or a run of      *)
(* letters that no pattern of the program can split (so "Cooking" is       *)
(* <<"Cook", "ing">> and "cookTime" is <<"cook", "Time">>).                *)
(***************************************************************************)
LineTerminators == {"\n", "\r"}
\* the lexeme of the backtick character
BackTick == "<backtick>"
\* the characters matched by \s and removed by String.prototype.trim
WhiteSpace == {" ", "\n", "\r", "\t"}
Punctuation == {"{", "}", "[", "]", "(", ")", ":", ",", ";", ".", "-", "*", "#",
                BackTick, "\"", "&", "<", ">", "+", "/", "|"}
\* \w: letters, digits and the underscore
IsWordTok(t) == t \notin WhiteSpace \cup Punctuation

RECURSIVE StrLen(_)
\* String.prototype.length, in characters
StrLen(s) == IF s = <<>> THEN 0 ELSE TokLen(Head(s)) + StrLen(Tail(s))

RECURSIVE TrimStart(_)
TrimStart(s) == IF s # <<>> /\ Head(s) \in WhiteSpace THEN TrimStart(Tail(s)) ELSE s
RECURSIVE TrimEnd(_)
TrimEnd(s) ==
  IF s # <<>> /\ s[Len(s)] \in WhiteSpace THEN TrimEnd(SubSeq(s, 1, Len(s) - 1)) ELSE s
\* String.prototype.trim
Trim(s) == TrimEnd(TrimStart(s))

StartsWith(s, t) == s # <<>> /\ Head(s) = t
EndsWith(s, t) == s # <<>> /\ s[Len(s)] = t

RECURSIVE Substring(_, _)
\* String.prototype.substring(0, n), cut at a lexeme boundary
Substring(s, n) ==
  IF s = <<>> \/ TokLen(Head(s)) > n THEN <<>>
  ELSE <<Head(s)>> \o Substring(Tail(s), n - TokLen(Head(s)))

RECURSIVE Join(_, _)
\* Array.prototype.join
Join(lines, sep) ==
  IF lines = <<>> THEN <<>>
  ELSE IF Len(lines) = 1 THEN lines[1]
  ELSE lines[1] \o sep \o Join(Tail(lines), sep)

(***************************************************************************)
(* Regular expressions.  A pattern is a sequence of nodes; MatchSeq is the *)
(* backtracking matcher of RegExp: it returns the first way, in the order  *)
(* in which the engine tries them, to match the nodes at a position.       *)
(***************************************************************************)
Lit(t) == << [k |-> "lit", t |-> t] >>
\* [abc] and [^abc]
Set(m) == << [k |-> "set", m |-> m, neg |-> FALSE] >>
NotSet(m) == << [k |-> "set", m |-> m, neg |-> TRUE] >>
\* the dot
AnyChar == << [k |-> "any"] >>
\* \d+ : one run of digits
Digits == Set(DigitTokens)
\* \s
Space == Set(WhiteSpace)
Rep(body, min, max) ==
  << [k |-> "rep", body |-> body, min |-> min, max |-> max, lazy |-> FALSE] >>
LazyRep(body, min, max) ==
  << [k |-> "rep", body |-> body, min |-> min, max |-> max, lazy |-> TRUE] >>
\* x*  x+  x?  x*?  x+?
Star(body) == Rep(body, 0, Unbounded)
Plus(body) == Rep(body, 1, Unbounded)
Opt(body) == Rep(body, 0, 1)
LazyStar(body) == LazyRep(body, 0, Unbounded)
LazyPlus(body) == LazyRep(body, 1, Unbounded)
\* a|b|c
Alt(alts) == << [k |-> "alt", alts |-> alts] >>
\* a word written as its lexemes
Lits(toks) == [j \in DOMAIN toks |-> [k |-> "lit", t |-> toks[j]]]
\* ( ... ) : capture group g
Cap(g, body) == << [k |-> "open", g |-> g] >> \o body \o << [k |-> "close", g |-> g] >>
\* (?= ... )
Look(body) == << [k |-> "look", body |-> body] >>
\* ^  $  \b
Bol == << [k |-> "bol"] >>
Eol == << [k |-> "eol"] >>
WordBoundary == << [k |-> "wb"] >>

\* a RegExp literal: its nodes and its flags
RegExp(re, flags) == [re |-> re, i |-> "i" \in flags, m |-> "m" \in flags,
                      s |-> "s" \in flags, g |-> "g" \in flags]

NoCaps == [g \in 1 .. MaxGroups |-> <<0, 0>>]
NoMatch == [ok |-> FALSE, start |-> 0, end |-> 0, caps |-> NoCaps]

TokMatches(n, tok, rx) ==
  CASE n.k = "lit" -> IF rx.i THEN LowerTok(tok) = LowerTok(n.t) ELSE tok = n.t
    [] n.k = "set" -> (tok \in n.m) # n.neg
    [] n.k = "any" -> rx.s \/ tok \notin LineTerminators
    [] OTHER -> FALSE

AtWordBoundary(text, pos) ==
  LET before == pos > 1 /\ IsWordTok(text[pos - 1])
      after == pos <= Len(text) /\ IsWordTok(text[pos])
  IN before # after

MinOf(S) == CHOOSE x \in S : \A y \in S : x <= y
MaxOf(S) == CHOOSE x \in S : \A y \in S : y <= x

\* a repeated node that consumes one lexeme per iteration
IsSingle(body) == Len(body) = 1 /\ body[1].k \in {"lit", "set", "any"}
\* where the longest run of at most max lexemes matching node n from pos ends
RunEnd(n, text, pos, max, rx) ==
  LET stops == { j \in pos .. Len(text) : j - pos >= max \/ ~TokMatches(n, text[j], rx) }
  IN IF stops = {} THEN Len(text) + 1 ELSE MinOf(stops)

\* where the rest of the pattern is tried after a run: after the shortest run that
\* lets it match for a lazy quantifier, after the longest for a greedy one; 0 if none
RunChoice(ends, lazy) ==
  IF ends = {} THEN 0 ELSE IF lazy THEN MinOf(ends) ELSE MaxOf(ends)

RECURSIVE MatchSeq(_, _, _, _, _)
RECURSIVE MatchAlt(_, _, _, _, _, _, _)
RECURSIVE MatchAfterRun(_, _, _, _, _)
MatchAfterRun(rest, text, end, caps, rx) ==
  IF end = 0 THEN NoMatch ELSE MatchSeq(rest, text, end, caps, rx)
MatchSeq(nodes, text, pos, caps, rx) ==
  IF nodes = <<>> THEN [ok |-> TRUE, start |-> 0, end |-> pos, caps |-> caps]
  ELSE
    LET n == Head(nodes)
        rest == Tail(nodes)
    IN CASE n.k \in {"lit", "set", "any"} ->
              IF pos <= Len(text) /\ TokMatches(n, text[pos], rx)
              THEN MatchSeq(rest, text, pos + 1, caps, rx) ELSE NoMatch
         [] n.k = "alt" -> MatchAlt(n.alts, 1, rest, text, pos, caps, rx)
         [] n.k = "rep" ->
              IF IsSingle(n.body)
              THEN MatchAfterRun(rest, text,
                     RunChoice({ e \in (pos + n.min) .. RunEnd(n.body[1], text, pos, n.max, rx) :
                                   MatchSeq(rest, text, e, caps, rx).ok }, n.lazy),
                     caps, rx)
              ELSE LET again == [n EXCEPT !.min = IF n.min > 0 THEN n.min - 1 ELSE 0,
                                          !.max = n.max - 1]
                       more == IF n.max > 0 /\ pos <= Len(text)
                               THEN MatchSeq(n.body \o <<again>> \o rest, text, pos, caps, rx)
                               ELSE NoMatch
                       stop == IF n.min = 0 THEN MatchSeq(rest, text, pos, caps, rx)
                               ELSE NoMatch
                   IN IF n.lazy THEN (IF stop.ok THEN stop ELSE more)
                                ELSE (IF more.ok THEN more ELSE stop)
         [] n.k = "open" ->
              MatchSeq(rest, text, pos, [caps EXCEPT ![n.g] = <<pos, pos>>], rx)
         [] n.k = "close" ->
              MatchSeq(rest, text, pos, [caps EXCEPT ![n.g] = <<caps[n.g][1], pos>>], rx)
         [] n.k = "look" -> IF MatchSeq(n.body, text, pos, caps, rx).ok
                            THEN MatchSeq(rest, text, pos, caps, rx) ELSE NoMatch
         [] n.k = "bol" -> IF pos = 1 \/ (rx.m /\ text[pos - 1] \in LineTerminators)
                           THEN MatchSeq(rest, text, pos, caps, rx) ELSE NoMatch
         [] n.k = "eol" -> IF pos = Len(text) + 1 \/ (rx.m /\ text[pos] \in LineTerminators)
                           THEN MatchSeq(rest, text, pos, caps, rx) ELSE NoMatch
         [] n.k = "wb" -> IF AtWordBoundary(text, pos)
                          THEN MatchSeq(rest, text, pos, caps, rx) ELSE NoMatch
         [] OTHER -> NoMatch
MatchAlt(alts, a, rest, text, pos, caps, rx) ==
  IF a > Len(alts) THEN NoMatch
  ELSE LET r == MatchSeq(alts[a] \o rest, text, pos, caps, rx)
       IN IF r.ok THEN r ELSE MatchAlt(alts, a + 1, rest, text, pos, caps, rx)

\* RegExp.prototype.exec from lastIndex `start`: the leftmost match
Leftmost(found) ==
  IF found = {} THEN NoMatch ELSE CHOOSE r \in found : \A o \in found : r.start <= o.start
Exec(rx, text, start) ==
  Leftmost({ r \in { [MatchSeq(rx.re, text, s, NoCaps, rx) EXCEPT !.start = s] :
                       s \in start .. (Len(text) + 1) } : r.ok })

\* String.prototype.match with a non-global pattern
Match(text, rx) == Exec(rx, text, 1)
\* RegExp.prototype.test
RegTest(rx, text) == Exec(rx, text, 1).ok
\* match[0] and match[g]; an unmatched group is undefined, here the empty string
Matched(text, r) == SubSeq(text, r.start, r.end - 1)
GroupOf(text, r, g) == SubSeq(text, r.caps[g][1], r.caps[g][2] - 1)

RECURSIVE MatchAllFrom(_, _, _)
RECURSIVE MatchAllAfter(_, _, _)
\* the match r and the matches after it
MatchAllAfter(text, rx, r) ==
  IF ~r.ok THEN <<>>
  ELSE <<Matched(text, r)>>
       \o MatchAllFrom(text, rx, IF r.end > r.start THEN r.end ELSE r.end + 1)
MatchAllFrom(text, rx, start) == MatchAllAfter(text, rx, Exec(rx, text, start))
\* String.prototype.match with a global pattern: all the matches
MatchAll(text, rx) == MatchAllFrom(text, rx, 1)

\* a replacement string: lexemes and $g references
Ref(g) == << [g |-> g, t |-> ""] >>
Txt(t) == << [g |-> 0, t |-> t] >>
RECURSIVE Expand(_, _, _)
Expand(repl, text, r) ==
  IF repl = <<>> THEN <<>>
  ELSE (IF Head(repl).g = 0 THEN <<Head(repl).t>> ELSE GroupOf(text, r, Head(repl).g))
       \o Expand(Tail(repl), text, r)

RECURSIVE ReplaceFrom(_, _, _, _)
RECURSIVE ReplaceMatch(_, _, _, _, _)
\* the text from `start` on with r, the next match, replaced, and the later ones
\* if the pattern is global
ReplaceMatch(text, rx, repl, start, r) ==
  IF ~r.ok THEN SubSeq(text, start, Len(text))
  ELSE SubSeq(text, start, r.start - 1) \o Expand(repl, text, r)
       \o (IF ~rx.g THEN SubSeq(text, r.end, Len(text))
           ELSE IF r.end > r.start THEN ReplaceFrom(text, rx, repl, r.end)
           ELSE IF r.end > Len(text) THEN <<>>
           ELSE <<text[r.end]>> \o ReplaceFrom(text, rx, repl, r.end + 1))
ReplaceFrom(text, rx, repl, start) ==
  ReplaceMatch(text, rx, repl, start, Exec(rx, text, start))
\* String.prototype.replace: the first match, or every match of a global pattern
Replace(text, rx, repl) == ReplaceFrom(text, rx, repl, 1)

RECURSIVE SplitFrom(_, _, _)
RECURSIVE SplitMatch(_, _, _, _)
\* the pieces of the text from `start` on, r being the next separator
SplitMatch(text, rx, start, r) ==
  IF ~r.ok \/ r.end = r.start THEN << SubSeq(text, start, Len(text)) >>
  ELSE << SubSeq(text, start, r.start - 1) >> \o SplitFrom(text, rx, r.end)
SplitFrom(text, rx, start) == SplitMatch(text, rx, start, Exec(rx, text, start))
\* String.prototype.split with a pattern that has no capture group
Split(text, rx) == SplitFrom(text, rx, 1)
\* String.prototype.split(rx)[0]
BeforeMatch(text, r) == IF r.ok /\ r.end > r.start THEN SubSeq(text, 1, r.start - 1) ELSE text
SplitFirst(text, rx) == BeforeMatch(text, Match(text, rx))

(***************************************************************************)
(* JavaScript values, as far as JSON.parse produces them.                  *)
(***************************************************************************)
Undefined == [t |-> "undefined", v |-> <<>>]
Null == [t |-> "null", v |-> <<>>]
Str(s) == [t |-> "string", v |-> s]
Num(n) == [t |-> "number", v |-> n]
Bool(b) == [t |-> "boolean", v |-> b]
Arr(a) == [t |-> "array", v |-> a]
\* an object: its members, as <<key, value>> pairs in insertion order
Obj(members) == [t |-> "object", v |-> members]

\* ToBoolean
Truthy(x) ==
  CASE x.t \in {"undefined", "null"} -> FALSE
    [] x.t = "string" -> x.v # <<>>
    [] x.t = "number" -> x.v # 0
    [] x.t = "boolean" -> x.v
    [] OTHER -> TRUE
\* a || b
OrElse(a, b) == IF Truthy(a) THEN a ELSE b
IsArray(x) == x.t = "array"

RECURSIVE GetFrom(_, _, _)
GetFrom(members, key, j) ==
  IF j = 0 THEN Undefined
  ELSE IF members[j][1] = key THEN members[j][2]
  ELSE GetFrom(members, key, j - 1)
\* obj.key (of duplicate keys JSON.parse keeps the last)
Get(obj, key) == GetFrom(obj.v, key, Len(obj.v))

(***************************************************************************)
(* JSON.parse: a recursive-descent parser over the lexemes.  Each parser   *)
(* returns [ok, val, pos]; ok = FALSE stands for the SyntaxError.  The     *)
(* alphabet has no backslash, sign, fraction or exponent.                  *)
(***************************************************************************)
JsonFail == [ok |-> FALSE, val |-> Undefined, pos |-> 0]
JsonOk(val, pos) == [ok |-> TRUE, val |-> val, pos |-> pos]
At(text, pos) == IF pos <= Len(text) THEN text[pos] ELSE "<eof>"
\* a raw control character is not allowed inside a JSON string
JsonControl == {"\n", "\r", "\t"}

RECURSIVE SkipWs(_, _)
SkipWs(text, pos) ==
  IF At(text, pos) \in WhiteSpace THEN SkipWs(text, pos + 1) ELSE pos

RECURSIVE StringEnd(_, _)
\* the position of the closing quote, or 0
StringEnd(text, pos) ==
  IF pos > Len(text) \/ text[pos] \in JsonControl THEN 0
  ELSE IF text[pos] = "\"" THEN pos
  ELSE StringEnd(text, pos + 1)

ParseString(text, pos) ==
  IF At(text, pos) # "\"" THEN JsonFail
  ELSE LET close == StringEnd(text, pos + 1)
       IN IF close = 0 THEN JsonFail
          ELSE JsonOk(Str(SubSeq(text, pos + 1, close - 1)), close + 1)

RECURSIVE ParseValue(_, _)
RECURSIVE ParseElements(_, _, _)
RECURSIVE ParseMembers(_, _, _)
ParseValue(text, pos0) ==
  LET pos == SkipWs(text, pos0)
      c == At(text, pos)
      r == CASE c = "\"" -> ParseString(text, pos)
             [] c \in DigitTokens -> JsonOk(Num(ParseInt(c)), pos + 1)
             [] c = "true" -> JsonOk(Bool(TRUE), pos + 1)
             [] c = "false" -> JsonOk(Bool(FALSE), pos + 1)
             [] c = "null" -> JsonOk(Null, pos + 1)
             [] c = "[" -> IF At(text, SkipWs(text, pos + 1)) = "]"
                           THEN JsonOk(Arr(<<>>), SkipWs(text, pos + 1) + 1)
                           ELSE ParseElements(text, pos + 1, <<>>)
             [] c = "{" -> IF At(text, SkipWs(text, pos + 1)) = "}"
                           THEN JsonOk(Obj(<<>>), SkipWs(text, pos + 1) + 1)
                           ELSE ParseMembers(text, pos + 1, <<>>)
             [] OTHER -> JsonFail
  IN IF r.ok THEN [r EXCEPT !.pos = SkipWs(text, r.pos)] ELSE r
\* value (, value)* ]
ParseElements(text, pos, acc) ==
  LET e == ParseValue(text, pos)
  IN IF ~e.ok THEN JsonFail
     ELSE IF At(text, e.pos) = "," THEN ParseElements(text, e.pos + 1, Append(acc, e.val))
     ELSE IF At(text, e.pos) = "]" THEN JsonOk(Arr(Append(acc, e.val)), e.pos + 1)
     ELSE JsonFail
\* string : value (, string : value)* }
ParseMembers(text, pos, acc) ==
  LET key == ParseString(text, SkipWs(text, pos))
      colon == SkipWs(text, key.pos)
      e == ParseValue(text, colon + 1)
  IN IF ~key.ok \/ At(text, colon) # ":" THEN JsonFail
     ELSE IF ~e.ok THEN JsonFail
     ELSE IF At(text, e.pos) = ","
          THEN ParseMembers(text, e.pos + 1, Append(acc, <<key.val.v, e.val>>))
     ELSE IF At(text, e.pos) = "}"
          THEN JsonOk(Obj(Append(acc, <<key.val.v, e.val>>)), e.pos + 1)
     ELSE JsonFail

\* JSON.parse(text): [ok, val]; ok = FALSE when it throws SyntaxError
JsonParse(text) ==
  LET r == ParseValue(text, 1)
  IN IF r.ok /\ r.pos = Len(text) + 1 THEN r ELSE JsonFail

(***************************************************************************)
(* cleanMarkdown (api.ts).                                                 *)
(***************************************************************************)
NonEmpty(s) == s # <<>>
MapTrim(lines) == [j \in DOMAIN lines |-> Trim(lines[j])]

\* one .replace(rx, repl) of a chain
Step(rx, repl) == << [rx |-> rx, repl |-> repl] >>

RECURSIVE ReplaceEach(_, _, _)
\* text.replace(...).replace(...)... : the steps of a chain, applied in order
ReplaceEach(text, steps, j) ==
  IF j > Len(steps) THEN text
  ELSE CHOOSE out \in { ReplaceEach(replaced, steps, j + 1) :
                         replaced \in {Replace(text, steps[j].rx, steps[j].repl)} } : TRUE

\* the .replace calls of cleanMarkdown, in the order of the source
cleanMarkdownSteps ==
  Step(RegExp(Lit("*") \o Lit("*"), {"g"}), <<>>)
  \o Step(RegExp(Lit("*"), {"g"}), <<>>)
  \o Step(RegExp(Lit("_") \o Lit("_"), {"g"}), <<>>)
  \o Step(RegExp(Lit("_"), {"g"}), <<>>)
  \* /^#{1,6}\s+/gm
  \o Step(RegExp(Bol \o Rep(Lit("#"), 1, 6) \o Plus(Space), {"g", "m"}), <<>>)
  \* /\[([^\]]+)\]\([^)]+\)/g -> '$1'
  \o Step(RegExp(Lit("[") \o Cap(1, Plus(NotSet({"]"}))) \o Lit("]")
                 \o Lit("(") \o Plus(NotSet({")"})) \o Lit(")"), {"g"}), Ref(1))
  \o Step(RegExp(Lit(BackTick), {"g"}), <<>>)
  \* /\s{2,}/g -> ' '
  \o Step(RegExp(Rep(Space, 2, Unbounded), {"g"}), Txt(" "))
  \* /\s+:/g -> ':'   /:\s+/g -> ': '
  \o Step(RegExp(Plus(Space) \o Lit(":"), {"g"}), Txt(":"))
  \o Step(RegExp(Lit(":") \o Plus(Space), {"g"}), Txt(":") \o Txt(" "))
  \o Step(RegExp(Lits(<<"&", "amp", ";">>), {"g"}), Txt("&"))
  \o Step(RegExp(Lits(<<"&", "lt", ";">>), {"g"}), Txt("<"))
  \o Step(RegExp(Lits(<<"&", "gt", ";">>), {"g"}), Txt(">"))
  \o Step(RegExp(Lits(<<"&", "quot", ";">>), {"g"}), Txt("\""))
  \* /(\d+)\s*\.\s+/g -> '$1. '
  \o Step(RegExp(Cap(1, Plus(Digits)) \o Star(Space) \o Lit(".") \o Plus(Space), {"g"}),
          Ref(1) \o Txt(".") \o Txt(" "))
  \o Step(RegExp(Plus(Space), {"g"}), Txt(" "))

\* the chain text.replace(...)...trim() of cleanMarkdown
cleanMarkdownText(text) == Trim(ReplaceEach(text, cleanMarkdownSteps, 1))

\* the outcome of a call: the value returned, or a thrown TypeError
Returned(v) == [threw |-> FALSE, v |-> v]
Thrown == [threw |-> TRUE, v |-> <<>>]

\* cleanMarkdown(x) for any JavaScript value x: `if (!text) return ''`, and
\* text.replace is not a function unless text is a string
cleanMarkdown(x) ==
  IF ~Truthy(x) THEN Returned(<<>>)
  ELSE IF x.t = "string" THEN Returned(cleanMarkdownText(x.v))
  ELSE Thrown

\* lines.map(cleanMarkdown) for an array of strings
MapClean(lines) == [j \in DOMAIN lines |-> cleanMarkdownText(lines[j])]

\* the array of the values returned, unless one of the calls threw
AllReturned(calls) ==
  IF \E j \in DOMAIN calls : calls[j].threw THEN Thrown
  ELSE Returned([j \in DOMAIN calls |-> calls[j].v])

\* array.map(cleanMarkdown) for an array of any values
MapCleanValues(a) == AllReturned([j \in DOMAIN a |-> cleanMarkdown(a[j])])

\* mutant: an empty or missing array is replaced by a one-entry placeholder list
CleanArrayOrEmpty_Placeholder(x) ==
  IF IsArray(x) /\ x.v # <<>> THEN MapCleanValues(x.v) ELSE Returned(<< <<"?">> >>)

\* Array.isArray(x) ? x.map(cleanMarkdown) : []
CleanArrayOrEmpty(x) == IF IsArray(x) THEN MapCleanValues(x.v) ELSE Returned(<<>>)

\* call || fallback, for a call that returns a string or throws
OrDefault(call, fallback) ==
  IF call.threw THEN Thrown ELSE Returned(IF call.v # <<>> THEN call.v ELSE fallback)

\* cleanMarkdown(x) || fallback
CleanOr(x, fallback) == OrDefault(cleanMarkdown(x), fallback)

(***************************************************************************)
(* The field extractors (api.ts).  They return a string as Str(s) and      *)
(* null as Null.                                                           *)
(***************************************************************************)
\* match && match[1]: the first group of the match r, "" when either is falsy
GroupIfMatched(text, r) == IF r.ok THEN GroupOf(text, r, 1) ELSE <<>>

RECURSIVE FirstGroup(_, _, _)
RECURSIVE FirstGroupOr(_, _, _, _)
\* if (match && match[1] && match[1].trim().length > 0) return match[1].trim();
\* trimmed is match[1].trim(), "" when there is no match or no group
FirstGroupOr(text, patterns, j, trimmed) ==
  IF trimmed # <<>> THEN Str(trimmed) ELSE FirstGroup(text, patterns, j + 1)
\* for (const pattern of patterns) { const match = text.match(pattern); ... }
\* return null
FirstGroup(text, patterns, j) ==
  IF j > Len(patterns) THEN Null
  ELSE FirstGroupOr(text, patterns, j, Trim(GroupIfMatched(text, Match(text, patterns[j]))))

\* Title[:\-]*\s*(.*?)[\n\r]
TitleLabel ==
  Lit("Title") \o Star(Set({":", "-"})) \o Star(Space) \o Cap(1, LazyStar(AnyChar))
titleWithLabelPatterns == <<
  RegExp(TitleLabel \o Set(LineTerminators), {"i", "m"}),
  RegExp(Bol \o Lit("#") \o Star(Space) \o TitleLabel \o Set(LineTerminators), {"i", "m"}),
  RegExp(Bol \o Lit("*") \o Lit("*") \o TitleLabel \o Lit("*") \o Lit("*")
         \o Set(LineTerminators), {"i", "m"}) >>
titlePatterns == <<
  RegExp(Bol \o Lit("#") \o Star(Space) \o Cap(1, LazyStar(AnyChar)) \o Set(LineTerminators), {"m"}),
  RegExp(Bol \o Lit("*") \o Lit("*") \o Cap(1, LazyStar(AnyChar)) \o Lit("*") \o Lit("*")
         \o Set(LineTerminators), {"m"}),
  RegExp(Bol \o Cap(1, LazyStar(AnyChar)) \o Set(LineTerminators), {}) >>

\* the result of the first loop if it returned, of the second loop otherwise
FirstReturned(labelled, unlabelled) == IF labelled # Null THEN labelled ELSE unlabelled
extractTitle(text) ==
  FirstReturned(FirstGroup(text, titleWithLabelPatterns, 1), FirstGroup(text, titlePatterns, 1))

descPatterns == <<
  \* /(?:Description|About)[:\-]*\s*(.*?)(?=\n\n|\n#|\n##|Ingredients)/is
  RegExp(Alt(<<Lit("Description"), Lit("About")>>) \o Star(Set({":", "-"})) \o Star(Space)
         \o Cap(1, LazyStar(AnyChar))
         \o Look(Alt(<<Lit("\n") \o Lit("\n"), Lit("\n") \o Lit("#"),
                       Lit("\n") \o Lit("#") \o Lit("#"), Lit("Ingredients")>>)),
         {"i", "s"}),
  \* /(?:^.*[\n\r]){1,2}(.*?)(?=[\n\r]*(?:Ingredients|##))/s
  RegExp(Rep(Bol \o Star(AnyChar) \o Set(LineTerminators), 1, 2) \o Cap(1, LazyStar(AnyChar))
         \o Look(Star(Set(LineTerminators))
                 \o Alt(<<Lit("Ingredients"), Lit("#") \o Lit("#")>>)),
         {"s"}) >>

extractDescription(text) == FirstGroup(text, descPatterns, 1)

\* Instructions|INSTRUCTIONS|Directions|DIRECTIONS|Preparation|Method|Steps
InstructionHeadings ==
  <<Lit("Instructions"), Lit("INSTRUCTIONS"), Lit("Directions"), Lit("DIRECTIONS"),
    Lits(<<"Prep", "aration">>), Lit("Method"), Lit("Steps")>>

\* /(?:Ingredients|INGREDIENTS)(?::|[\n\r]+)(.*?)(?=(?:Instructions|...|Steps|##|$))/is
ingredientsSection ==
  RegExp(Alt(<<Lit("Ingredients"), Lit("INGREDIENTS")>>)
         \o Alt(<<Lit(":"), Plus(Set(LineTerminators))>>)
         \o Cap(1, LazyStar(AnyChar))
         \o Look(Alt(InstructionHeadings \o <<Lit("#") \o Lit("#"), Eol>>)),
         {"i", "s"})
lineBreaks == RegExp(Plus(Set(LineTerminators)), {})
\* /^[-*•\d+\.]+\s*/ (the alphabet has no bullet character)
listMarker == RegExp(Bol \o Plus(Set({"-", "*", "+", "."} \cup DigitTokens)) \o Star(Space), {})
ingredientsWord == RegExp(Bol \o Lit("ingredients"), {"i"})
\* /^[-*•]\s*(.*?)[\n\r]/gm
bulletLine == RegExp(Bol \o Set({"-", "*"}) \o Star(Space) \o Cap(1, LazyStar(AnyChar))
                     \o Set(LineTerminators), {"g", "m"})
bulletMarker == RegExp(Bol \o Set({"-", "*"}) \o Star(Space), {})

StripListMarker(line) == Trim(Replace(line, listMarker, <<>>))
StripBullet(line) == Trim(Replace(line, bulletMarker, <<>>))
IsIngredientLine(line) == line # <<>> /\ ~Match(line, ingredientsWord).ok

MapStripListMarker(lines) == [j \in DOMAIN lines |-> StripListMarker(lines[j])]
MapStripBullet(items) == [j \in DOMAIN items |-> StripBullet(items[j])]
\* ingredientsSection[1].split(/[\n\r]+/).map(...).filter(...)
SectionIngredients(section) ==
  SelectSeq(MapStripListMarker(Split(section, lineBreaks)), IsIngredientLine)
\* if (bulletItems) return bulletItems.map(...).filter(Boolean); return []
BulletIngredients(bulletItems) ==
  IF bulletItems # <<>> THEN SelectSeq(MapStripBullet(bulletItems), NonEmpty) ELSE <<>>
\* if (ingredientsSection && ingredientsSection[1]) ... else the bullet lines
IngredientsOf(text, section) ==
  IF section # <<>> THEN SectionIngredients(section)
  ELSE BulletIngredients(MatchAll(text, bulletLine))
extractIngredients(text) ==
  IngredientsOf(text, GroupIfMatched(text, Match(text, ingredientsSection)))

\* /(?:Instructions|...|Steps)(?::|[\n\r]+)(.*?)(?=(?:##|Notes|Tips|$))/is
instructionsSection ==
  RegExp(Alt(InstructionHeadings) \o Alt(<<Lit(":"), Plus(Set(LineTerminators))>>)
         \o Cap(1, LazyStar(AnyChar))
         \o Look(Alt(<<Lit("#") \o Lit("#"), Lit("Notes"), Lit("Tips"), Eol>>)),
         {"i", "s"})
\* /(Cooking Time|Cook Time|Total Time|Servings|Serves|Yield|Difficulty):/i
metadataRegex ==
  RegExp(Cap(1, Alt(<<Lits(<<"Cook", "ing", " ", "Time">>), Lits(<<"Cook", " ", "Time">>),
                      Lits(<<"Total", " ", "Time">>), Lit("Servings"), Lit("Serves"),
                      Lit("Yield"), Lit("Difficulty")>>)) \o Lit(":"), {"i"})
\* /^\s*\d+[\.\)]\s+.+$/gm
numberedStepsPattern ==
  RegExp(Bol \o Star(Space) \o Plus(Digits) \o Set({".", ")"}) \o Plus(Space) \o Plus(AnyChar)
         \o Eol, {"g", "m"})
\* /^\s*(\d+)[\.\)]\s+(.+)$/
numberedLine ==
  RegExp(Bol \o Star(Space) \o Cap(1, Plus(Digits)) \o Set({".", ")"}) \o Plus(Space)
         \o Cap(2, Plus(AnyChar)) \o Eol, {})
\* /\r?\n/
newline == RegExp(Opt(Lit("\r")) \o Lit("\n"), {})

\* text.split(/\r?\n/).map(line => line.trim()).filter(line => line.length > 0)
TrimmedLines(text) == SelectSeq(MapTrim(Split(text, newline)), NonEmpty)

RECURSIVE NumberedSteps(_, _)
\* the loop over the lines of a numbered list
NumberedSteps(lines, steps) ==
  IF lines = <<>> THEN steps
  ELSE LET line == Head(lines)
       IN NumberedSteps(Tail(lines),
            IF Match(line, numberedLine).ok THEN Append(steps, line)
            ELSE IF steps # <<>> /\ line # <<>>
                 THEN [steps EXCEPT ![Len(steps)] = @ \o <<" ">> \o line]
            ELSE IF Trim(line) # <<>> THEN Append(steps, line)
            ELSE steps)

RECURSIVE ProseSteps(_, _, _)
\* the loop over the lines when no numbered step was found
ProseSteps(lines, steps, currentStep) ==
  IF lines = <<>> THEN (IF currentStep # <<>> THEN Append(steps, currentStep) ELSE steps)
  ELSE LET line == Head(lines)
           isSectionHeader == StrLen(line) < 30 /\ EndsWith(line, ":")
           isNewParagraph == StrLen(line) > 20
       IN IF RegTest(metadataRegex, line) THEN ProseSteps(Tail(lines), steps, currentStep)
          ELSE IF isSectionHeader \/ (isNewParagraph /\ currentStep # <<>>)
          THEN ProseSteps(Tail(lines),
                          Append(IF currentStep # <<>> THEN Append(steps, currentStep)
                                 ELSE steps, line),
                          <<>>)
          ELSE ProseSteps(Tail(lines), steps,
                          IF currentStep # <<>> THEN currentStep \o <<" ">> \o line ELSE line)

\* hasNumberedSteps ? the numbered loop : the prose loop
StepsOf(lines, hasNumberedSteps) ==
  IF hasNumberedSteps THEN NumberedSteps(lines, <<>>) ELSE ProseSteps(lines, <<>>, <<>>)
\* mutant: one pattern object is shared by the calls and keeps its lastIndex
NewPatternLastIndex_Shared == stepsLastIndex
\* `const numberedStepsPattern = /.../gm` is evaluated in each call: the
\* pattern is a new RegExp object, whose lastIndex is 0
NewPatternLastIndex == 0
\* numberedStepsPattern.test(text): a global pattern is matched from lastIndex
TestNumberedSteps(text) == Exec(numberedStepsPattern, text, NewPatternLastIndex + 1)
InstructionSteps(actualInstructionsText) ==
  StepsOf(TrimmedLines(actualInstructionsText), TestNumberedSteps(actualInstructionsText).ok)
\* mutant: the text is not split at the first metadata label
InstructionsOf_Unsplit(section) ==
  IF section = <<>> THEN <<>> ELSE InstructionSteps(Trim(section))
\* if (instructionsSection && instructionsSection[1]) { ... } return []
InstructionsOf(section) ==
  IF section = <<>> THEN <<>>
  ELSE InstructionSteps(Trim(SplitFirst(Trim(section), metadataRegex)))
extractInstructions(text) ==
  InstructionsOf(GroupIfMatched(text, Match(text, instructionsSection)))

\* [^\n\r.;]*
UntilStop == Star(NotSet({"\n", "\r", ".", ";"}))
cookTimePatterns == <<
  \* /(?:Cook|Cooking)\s*Time:?\s*([^\n\r.;]*)/i
  RegExp(Alt(<<Lit("Cook"), Lits(<<"Cook", "ing">>)>>) \o Star(Space) \o Lit("Time")
         \o Opt(Lit(":")) \o Star(Space) \o Cap(1, UntilStop), {"i"}),
  \* /(?:cook|cooking)(?:\s+time)?:?\s*([^\n\r.;]*)/i
  RegExp(Alt(<<Lit("cook"), Lits(<<"cook", "ing">>)>>) \o Opt(Plus(Space) \o Lit("time"))
         \o Opt(Lit(":")) \o Star(Space) \o Cap(1, UntilStop), {"i"}),
  \* /(?:takes|takes about|approximately)\s+([^\n\r.;]*?to cook)/i
  RegExp(Alt(<<Lit("takes"), Lits(<<"takes", " ", "about">>), Lit("approximately")>>)
         \o Plus(Space)
         \o Cap(1, LazyStar(NotSet({"\n", "\r", ".", ";"})) \o Lits(<<"to", " ", "cook">>)),
         {"i"}) >>
extractCookTime(text) == FirstGroup(text, cookTimePatterns, 1)

\* /Prep(?:aration)?\s*Time:?\s*([^\n\r]*)/i
prepTimePattern ==
  RegExp(Lit("Prep") \o Opt(Lit("aration")) \o Star(Space) \o Lit("Time") \o Opt(Lit(":"))
         \o Star(Space) \o Cap(1, Star(NotSet(LineTerminators))), {"i"})
\* prepTimeMatch ? prepTimeMatch[1].trim() : null
PrepTimeOf(text, prepTimeMatch) ==
  IF prepTimeMatch.ok THEN Str(Trim(GroupOf(text, prepTimeMatch, 1))) ELSE Null
extractPrepTime(text) == PrepTimeOf(text, Match(text, prepTimePattern))

totalTimePatterns == <<
  \* /Total\s*Time:?\s*([^\n\r.;]*)/i
  RegExp(Lit("Total") \o Star(Space) \o Lit("Time") \o Opt(Lit(":")) \o Star(Space)
         \o Cap(1, UntilStop), {"i"}),
  \* /(?:total|overall)(?:\s+time)?:?\s*([^\n\r.;]*)/i
  RegExp(Alt(<<Lit("total"), Lit("overall")>>) \o Opt(Plus(Space) \o Lit("time"))
         \o Opt(Lit(":")) \o Star(Space) \o Cap(1, UntilStop), {"i"}) >>
extractTotalTime(text) == FirstGroup(text, totalTimePatterns, 1)

servingsPatterns == <<
  \* /(?:Serves|Servings|Yield|Serves:?|Servings:?|Yield:?)[:\-]*\s*(?:\*\*)?\s*(\d+)/i
  RegExp(Alt(<<Lit("Serves"), Lit("Servings"), Lit("Yield"), Lit("Serves") \o Opt(Lit(":")),
               Lit("Servings") \o Opt(Lit(":")), Lit("Yield") \o Opt(Lit(":"))>>)
         \o Star(Set({":", "-"})) \o Star(Space) \o Opt(Lit("*") \o Lit("*")) \o Star(Space)
         \o Cap(1, Plus(Digits)), {"i"}),
  \* /(?:serves|servings|yield|makes)\s+(\d+)/i
  RegExp(Alt(<<Lit("serves"), Lit("servings"), Lit("yield"), Lit("makes")>>) \o Plus(Space)
         \o Cap(1, Plus(Digits)), {"i"}),
  \* /(?:serves|servings|yield|makes):?\s+(\d+)/i
  RegExp(Alt(<<Lit("serves"), Lit("servings"), Lit("yield"), Lit("makes")>>) \o Opt(Lit(":"))
         \o Plus(Space) \o Cap(1, Plus(Digits)), {"i"}) >>

\* parseInt(s, 10) of a string of digit runs (the first run, in this alphabet)
ParseIntStr(s) == IF s = <<>> THEN 0 ELSE ParseInt(Head(s))

RECURSIVE FirstServings(_, _)
RECURSIVE FirstServingsOr(_, _, _)
\* if (match && match[1]) { const servings = parseInt(match[1], 10);
\*   if (!isNaN(servings) && servings > 0) return servings; }
FirstServingsOr(text, j, group) ==
  IF group # <<>> /\ ParseIntStr(group) > 0 THEN Num(ParseIntStr(group))
  ELSE FirstServings(text, j + 1)
\* the loop of extractServings: the first pattern whose number is positive
FirstServings(text, j) ==
  IF j > Len(servingsPatterns) THEN Null
  ELSE FirstServingsOr(text, j, GroupIfMatched(text, Match(text, servingsPatterns[j])))
extractServings(text) == FirstServings(text, 1)

difficultyPatterns == <<
  \* /Difficulty[:\-]*\s*(?:\*\*)?\s*([^\n\r.;]*)/i
  RegExp(Lit("Difficulty") \o Star(Set({":", "-"})) \o Star(Space)
         \o Opt(Lit("*") \o Lit("*")) \o Star(Space) \o Cap(1, UntilStop), {"i"}),
  \* /difficulty:?\s+([^\n\r.;]*)/i
  RegExp(Lit("difficulty") \o Opt(Lit(":")) \o Plus(Space) \o Cap(1, UntilStop), {"i"}),
  \* /difficulty(?:\s+level)?:?\s+([^\n\r.;]*)/i
  RegExp(Lit("difficulty") \o Opt(Plus(Space) \o Lit("level")) \o Opt(Lit(":"))
         \o Plus(Space) \o Cap(1, UntilStop), {"i"}) >>
extractDifficulty(text) == FirstGroup(text, difficultyPatterns, 1)

\* /(?:Tags|Categories)[:\-]*\s*([^\n\r]*)/i
tagsPattern ==
  RegExp(Alt(<<Lit("Tags"), Lit("Categories")>>) \o Star(Set({":", "-"})) \o Star(Space)
         \o Cap(1, Star(NotSet(LineTerminators))), {"i"})
\* /,|;/
tagSeparator == RegExp(Alt(<<Lit(","), Lit(";")>>), {})
\* if (tagsSection && tagsSection[1]) return tagsSection[1].split(/,|;/).map(trim)
TagsOf(section) == IF section # <<>> THEN MapTrim(Split(section, tagSeparator)) ELSE <<>>
extractTags(text) == TagsOf(GroupIfMatched(text, Match(text, tagsPattern)))

\* <Label>[:\-]*\s*(\d+)(?:\s*unit)?
MacroPattern(label, unit) ==
  RegExp(label \o Star(Set({":", "-"})) \o Star(Space) \o Cap(1, Plus(Digits))
         \o (IF unit = "" THEN <<>> ELSE Opt(Star(Space) \o Lit(unit))), {"i"})
caloriesPattern == MacroPattern(Alt(<<Lit("Calories"), Lit("Energy")>>), "")
proteinPattern == MacroPattern(Lit("Protein"), "g")
carbsPattern == MacroPattern(Alt(<<Lit("Carbs"), Lit("Carbohydrates")>>), "g")
fatPattern == MacroPattern(Lit("Fat"), "g")
fiberPattern == MacroPattern(Lit("Fiber"), "g")
sugarPattern == MacroPattern(Lit("Sugar"), "g")
sodiumPattern == MacroPattern(Lit("Sodium"), "mg")
saturatedFatPattern ==
  MacroPattern(Alt(<<Lits(<<"Sat", "urated", " ", "Fat">>), Lits(<<"Sat", " ", "Fat">>)>>), "g")
\* /(?:Nutrition(?:al)?\s*(?:Information|Facts|Values|Macros)|Macros|Nutritional\s*Information)
\*   [:\-]*\s*(.*?)(?=\n\n|\n#|\n##|$)/is
nutritionSection ==
  RegExp(Alt(<<Lit("Nutrition") \o Opt(Lit("al")) \o Star(Space)
                 \o Alt(<<Lit("Information"), Lit("Facts"), Lit("Values"), Lit("Macros")>>),
               Lit("Macros"),
               Lits(<<"Nutrition", "al">>) \o Star(Space) \o Lit("Information")>>)
         \o Star(Set({":", "-"})) \o Star(Space) \o Cap(1, LazyStar(AnyChar))
         \o Look(Alt(<<Lit("\n") \o Lit("\n"), Lit("\n") \o Lit("#"),
                       Lit("\n") \o Lit("#") \o Lit("#"), Eol>>)),
         {"i", "s"})

\* m ? parseInt(m[1], 10) : 0
MacroOf(text, m) == IF m.ok THEN ParseIntStr(GroupOf(text, m, 1)) ELSE 0
MacroValue(text, pattern) == MacroOf(text, Match(text, pattern))
\* if (m) macros.key = parseInt(m[1], 10)
OptionalMacroOf(text, m, key) ==
  IF m.ok THEN << <<key, Num(ParseIntStr(GroupOf(text, m, 1)))>> >> ELSE <<>>
OptionalMacro(text, pattern, key) == OptionalMacroOf(text, Match(text, pattern), key)
CoreMacros(text) ==
  << <<<<"calories">>, Num(MacroValue(text, caloriesPattern))>>,
     <<<<"protein">>, Num(MacroValue(text, proteinPattern))>>,
     <<<<"carbs">>, Num(MacroValue(text, carbsPattern))>>,
     <<<<"fat">>, Num(MacroValue(text, fatPattern))>> >>

\* nutritionText is nutritionSection[1], "" when the section did not match
MacrosOf(text, nutritionText) ==
  IF nutritionText = <<>>
     THEN IF \/ RegTest(caloriesPattern, text) \/ RegTest(proteinPattern, text)
             \/ RegTest(carbsPattern, text) \/ RegTest(fatPattern, text)
          THEN Obj(CoreMacros(text))
          ELSE Null
     ELSE Obj(CoreMacros(nutritionText)
              \o OptionalMacro(nutritionText, fiberPattern, <<"fiber">>)
              \o OptionalMacro(nutritionText, sugarPattern, <<"sugar">>)
              \o OptionalMacro(nutritionText, sodiumPattern, <<"sodium">>)
              \o OptionalMacro(nutritionText, saturatedFatPattern, <<"sat", "urated", "Fat">>))
extractMacros(text) == MacrosOf(text, GroupIfMatched(text, Match(text, nutritionSection)))

(***************************************************************************)
(* The last-resort extractors of the outer catch block.                    *)
(***************************************************************************)
\* /\b(cup|tbsp|tsp|g|oz|lb|ml|l)\b|flour|sugar|salt|butter|oil/i
measureOrFood ==
  RegExp(Alt(<<WordBoundary
                 \o Alt(<<Lit("cup"), Lit("tbsp"), Lit("tsp"), Lit("g"), Lit("oz"), Lit("lb"),
                          Lit("ml"), Lit("l")>>) \o WordBoundary,
               Lit("flour"), Lit("sugar"), Lit("salt"), Lit("butter"), Lit("oil")>>), {"i"})
\* /\b(mix|stir|combine|bake|cook|preheat)\b/i
cookingVerb ==
  RegExp(WordBoundary
         \o Alt(<<Lit("mix"), Lit("stir"), Lit("combine"), Lit("bake"), Lit("cook"),
                  Lit("preheat")>>) \o WordBoundary, {"i"})
LooksLikeIngredient(line) ==
  /\ Trim(line) # <<>>
  /\ StrLen(Trim(line)) < 100
  /\ RegTest(measureOrFood, Trim(line))
  /\ ~RegTest(cookingVerb, Trim(line))
extractFallbackIngredients(text) ==
  MapTrim(SelectSeq(Split(text, lineBreaks), LooksLikeIngredient))

\* /[\n\r]{2,}/
paragraphBreak == RegExp(Rep(Set(LineTerminators), 2, Unbounded), {})
IsParagraph(para) == StrLen(para) > 20 /\ StrLen(para) < 500
\* .slice(0, 10)
Slice10(a) == SubSeq(a, 1, IF Len(a) < 10 THEN Len(a) ELSE 10)
extractFallbackInstructions(text) ==
  Slice10(SelectSeq(MapTrim(Split(text, paragraphBreak)), IsParagraph))

(***************************************************************************)
(* parseRecipeFromResponse (api.ts).                                       *)
(***************************************************************************)
UnknownDish == <<"Unknown", " ", "Dish">>
HomemadeDish == <<"Homemade", " ", "Dish">>
RecipeAnalysis == <<"Recipe", " ", "Analysis">>
DefaultCookTime == <<"30", " ", "mins">>
DefaultPrepTime == <<"15", " ", "mins">>
DefaultTotalTime == <<"45", " ", "mins">>
DefaultDifficulty == <<"Medium">>

\* responseText.trim().startsWith('{') && responseText.trim().endsWith('}')
JsonShaped(responseText) ==
  StartsWith(Trim(responseText), "{") /\ EndsWith(Trim(responseText), "}")

\* mutant: a title alone is enough for the JSON branch
HasRequiredFields_TitleOnly(jsonData) == Truthy(Get(jsonData, <<"title">>))

\* jsonData.title && (jsonData.ingredients || jsonData.instructions)
HasRequiredFields(jsonData) ==
  /\ Truthy(Get(jsonData, <<"title">>))
  /\ Truthy(Get(jsonData, <<"ingredients">>)) \/ Truthy(Get(jsonData, <<"instructions">>))

\* an object literal from its evaluated fields: evaluating it throws if
\* evaluating one of the fields throws
ObjectLiteral(fields) ==
  [threw |-> \E f \in DOMAIN fields : fields[f].threw,
   v |-> [f \in DOMAIN fields |-> fields[f].v]]

\* the object literal of lines 151-169
JsonRecipe(jsonData) ==
  ObjectLiteral(
    [title |-> CleanOr(Get(jsonData, <<"title">>), UnknownDish),
     description |-> CleanOr(Get(jsonData, <<"description">>), <<>>),
     ingredients |-> CleanArrayOrEmpty(Get(jsonData, <<"ingredients">>)),
     instructions |-> CleanArrayOrEmpty(Get(jsonData, <<"instructions">>)),
     cookTime |-> CleanOr(OrElse(Get(jsonData, <<"cook", "Time">>), Get(jsonData, <<"cook", "ing", "Time">>)),
                          DefaultCookTime),
     prepTime |-> CleanOr(OrElse(Get(jsonData, <<"prep", "Time">>),
                                 Get(jsonData, <<"prep", "aration", "Time">>)), DefaultPrepTime),
     totalTime |-> CleanOr(Get(jsonData, <<"total", "Time">>), DefaultTotalTime),
     servings |-> Returned(OrElse(Get(jsonData, <<"servings">>),
                                  OrElse(Get(jsonData, <<"yield">>), Num(DefaultServings)))),
     difficulty |-> CleanOr(Get(jsonData, <<"difficulty">>), DefaultDifficulty),
     tags |-> CleanArrayOrEmpty(Get(jsonData, <<"tags">>)),
     macros |-> Returned(OrElse(Get(jsonData, <<"macros">>),
                                OrElse(Get(jsonData, <<"nutrition">>),
                                       OrElse(Get(jsonData, <<"nutrition", "al", "Info">>), Null))))])

\* return { ... } unless a field threw, which the inner catch block swallows
ReturnOrCatch(recipe) ==
  IF recipe.threw THEN [outcome |-> "caught", v |-> <<>>]
  ELSE [outcome |-> "returned", v |-> recipe.v]

\* the statements after JSON.parse, parsedJson being what it returned or threw
AfterJsonParse(parsedJson) ==
  IF ~parsedJson.ok THEN [outcome |-> "caught", v |-> <<>>]
  ELSE IF ~HasRequiredFields(parsedJson.val) THEN [outcome |-> "skipped", v |-> <<>>]
  ELSE ReturnOrCatch(JsonRecipe(parsedJson.val))

\* the inner try block (lines 145-174): "returned" with the recipe, "skipped"
\* when the required fields are missing, "caught" when JSON.parse or a field threw
JsonBranch(responseText) == AfterJsonParse(JsonParse(responseText))

\* mutant: no default for a title that the heuristics did not find
HeuristicTitle_NoDefault(responseText) == CleanOr(extractTitle(responseText), <<>>)

\* cleanMarkdown(extractTitle(responseText)) || "Homemade Dish"
HeuristicTitle(responseText) == CleanOr(extractTitle(responseText), HomemadeDish)

\* lines 178-195: the heuristic extractors
HeuristicRecipe(responseText) ==
  ObjectLiteral(
    [title |-> HeuristicTitle(responseText),
     description |-> CleanOr(extractDescription(responseText), <<>>),
     ingredients |-> Returned(MapClean(extractIngredients(responseText))),
     instructions |-> Returned(MapClean(extractInstructions(responseText))),
     cookTime |-> CleanOr(extractCookTime(responseText), DefaultCookTime),
     prepTime |-> CleanOr(extractPrepTime(responseText), DefaultPrepTime),
     totalTime |-> CleanOr(extractTotalTime(responseText), DefaultTotalTime),
     servings |-> Returned(OrElse(extractServings(responseText), Num(DefaultServings))),
     difficulty |-> CleanOr(extractDifficulty(responseText), DefaultDifficulty),
     tags |-> Returned(MapClean(extractTags(responseText))),
     macros |-> Returned(extractMacros(responseText))])

\* lines 199-216: the recipe built by the outer catch block
FallbackRecipe(responseText) ==
  [title |-> RecipeAnalysis,
   description |-> cleanMarkdownText(Substring(responseText, 200)) \o <<".", ".", ".">>,
   ingredients |-> MapClean(extractFallbackIngredients(responseText)),
   instructions |-> MapClean(extractFallbackInstructions(responseText)),
   cookTime |-> DefaultCookTime,
   prepTime |-> DefaultPrepTime,
   totalTime |-> DefaultTotalTime,
   servings |-> Num(DefaultServings),
   difficulty |-> DefaultDifficulty,
   tags |-> <<>>,
   macros |-> Obj(<< <<<<"calories">>, Num(0)>>, <<<<"protein">>, Num(0)>>,
                     <<<<"carbs">>, Num(0)>>, <<<<"fat">>, Num(0)>> >>)]

\* the statements of the function in order: the JSON branch if it returned, else
\* the heuristic recipe if building it did not throw, else the outer catch block
ReturnedBy(json, heuristic, responseText) ==
  IF json.outcome = "returned"
  THEN [threw |-> FALSE, path |-> "json", recipe |-> json.v]
  ELSE IF ~heuristic.threw
  THEN [threw |-> FALSE, path |-> "heuristic", recipe |-> heuristic.v]
  ELSE [threw |-> FALSE, path |-> "fallback", recipe |-> FallbackRecipe(responseText)]

\* if (responseText.trim().startsWith('{') && responseText.trim().endsWith('}')) try { ... }
TryJson(responseText) ==
  IF JsonShaped(responseText) THEN JsonBranch(responseText)
  ELSE [outcome |-> "skipped", v |-> <<>>]

\* parseRecipeFromResponse(responseText) for a string: the recipe, the path
\* that built it, and whether an exception left the function
parseRecipeFromResponse(responseText) ==
  ReturnedBy(TryJson(responseText), HeuristicRecipe(responseText), responseText)

(***************************************************************************)
(* The responses of the model.  A response is described by what it         *)
(* contains; ResponseText spells it out as the string the parser receives. *)
(***************************************************************************)
Responses ==
  [kind : {"json"}, title : {"absent", "string", "markdown", "number"},
   ingredients : {"absent", "strings", "empty", "numbers", "text"},
   instructions : {"absent", "strings"}, extra : {"none", "string", "number"},
   layout : {"compact", "pretty"}]
  \cup
  [kind : {"broken"}, title : {"absent", "string"}, ingredients : {"absent", "strings"},
   instructions : {"absent", "strings"}, extra : {"none"}, layout : {"compact", "pretty"}]
  \cup
  [kind : {"text"}, title : {"absent", "plain", "label", "heading", "bold", "fence"},
   ingredients : {"absent", "list", "header", "bullets"},
   instructions : {"absent", "numbered", "prose"}, extra : {"none", "meta"},
   layout : {"lines", "unterminated", "padded"}]

Quoted(s) == <<"\"">> \o s \o <<"\"">>

\* the JSON text of each field value
JsonTitleText(r) ==
  CASE r.title = "string" -> <<"\"", "T", "\"">>
    [] r.title = "markdown" -> <<"\"", "*", "*", "\"">>
    [] r.title = "number" -> <<"5">>
JsonIngredientsText(r) ==
  CASE r.ingredients = "strings" -> <<"[", "\"", "a", "\"", "]">>
    [] r.ingredients = "empty" -> <<"[", "]">>
    [] r.ingredients = "numbers" -> <<"[", "1", "]">>
    [] r.ingredients = "text" -> <<"\"", "x", "\"">>
JsonInstructionsText(r) == <<"[", "\"", "b", "\"", "]">>
JsonCookTimeText(r) ==
  CASE r.extra = "string" -> <<"\"", "20", " ", "mins", "\"">>
    [] r.extra = "number" -> <<"30">>

JsonMembers(r) ==
  (IF r.title = "absent" THEN <<>> ELSE << <<<<"title">>, JsonTitleText(r)>> >>)
  \o (IF r.ingredients = "absent" THEN <<>>
      ELSE << <<<<"ingredients">>, JsonIngredientsText(r)>> >>)
  \o (IF r.instructions = "absent" THEN <<>>
      ELSE << <<<<"instructions">>, JsonInstructionsText(r)>> >>)
  \o (IF r.extra = "none" THEN <<>> ELSE << <<<<"cook", "Time">>, JsonCookTimeText(r)>> >>)

RECURSIVE JsonMembersText(_, _, _)
JsonMembersText(members, layout, j) ==
  IF j > Len(members) THEN <<>>
  ELSE (IF layout = "pretty" THEN <<"\n", " ", " ">> ELSE <<>>)
       \o Quoted(members[j][1])
       \o (IF layout = "pretty" THEN <<":", " ">> ELSE <<":">>)
       \o members[j][2]
       \o (IF j < Len(members) THEN <<",">> ELSE <<>>)
       \o JsonMembersText(members, layout, j + 1)

\* JSON.stringify of the object; a "broken" one has a comma before the brace
JsonText(r) ==
  <<"{">> \o JsonMembersText(JsonMembers(r), r.layout, 1)
  \o (IF r.kind = "broken" THEN <<",">> ELSE <<>>)
  \o (IF r.layout = "pretty" THEN <<"\n", "}">> ELSE <<"}">>)

TitleLine(r) ==
  CASE r.title = "absent" -> <<>>
    [] r.title = "plain" -> <<"Foo", " ", "Bar", "\n">>
    [] r.title = "label" -> <<"Title", ":", " ", "Foo", "\n">>
    [] r.title = "heading" -> <<"#", " ", "Foo", "\n">>
    [] r.title = "bold" -> <<"*", "*", "Foo", "*", "*", "\n">>
    [] r.title = "fence" -> <<"<backtick>", "<backtick>", "<backtick>", "json", "\n">>
    [] r.title = "second" -> <<"Bar", "\n", "Title", ":", " ", "Foo", "\n">>
IngredientsBlock(r) ==
  CASE r.ingredients = "absent" -> <<>>
    [] r.ingredients = "list" -> <<"Ingredients", ":", "\n", "-", " ", "1", " ", "cup", " ", "flour", "\n", "-", " ", "salt", "\n">>
    [] r.ingredients = "header" -> <<"Ingredients", ":", "\n">>
    [] r.ingredients = "bullets" -> <<"-", " ", "salt", "\n", "*", " ", "flour", "\n">>
InstructionsBlock(r) ==
  CASE r.instructions = "absent" -> <<>>
    [] r.instructions = "numbered" -> <<"Instructions", ":", "\n", "1", ".", " ", "Mix", ".", "\n", "2", ".", " ", "Bake", ".", "\n">>
    [] r.instructions = "prose" -> <<"Directions", ":", "\n", "Mix", " ", "flour", ".", "\n", "Bake", ".", "\n">>
    [] r.instructions = "gapped" -> <<"Instructions", ":", "\n", "1", ".", " ", "Mix", ".", "\n", "3", ".", " ", "Bake", ".", "\n">>
    [] r.instructions = "serve" ->
         <<"Instructions", ":", "\n", "4", ".", " ", "Bake", ".", "\n", "5", ".", " ", "Serve", " ", "warm", ".", " ", "Cook", "ing", " ", "Time", ":", " ", "20", " ", "mins", " ", "Servings", ":", " ", "4", "\n">>
MetaBlock(r) ==
  CASE r.extra = "none" -> <<>>
    [] r.extra = "meta" -> <<"Cook", " ", "Time", ":", " ", "20", " ", "mins", "\n", "Servings", ":", " ", "2", "\n">>
    [] r.extra = "nutrition" -> <<"Nutrition", " ", "Facts", ":", "\n", "Calories", ":", " ", "300", "\n", "Protein", ":", " ", "20", "g", "\n">>
    [] r.extra = "facts" -> <<"Nutrition", " ", "Facts", ":", " ", "per", " ", "serving", "\n">>
    [] r.extra = "protein" -> <<"Protein", ":", " ", "20", "g", "\n">>

PlainText(r) ==
  LET body == TitleLine(r) \o IngredientsBlock(r) \o InstructionsBlock(r) \o MetaBlock(r)
  IN CASE r.layout = "lines" -> body
       [] r.layout = "unterminated" -> SubSeq(body, 1, Len(body) - 1)
       [] r.layout = "padded" -> <<" ">> \o body \o <<" ", "\n">>

\* the string handed to parseRecipeFromResponse
ResponseText(r) == IF r.kind = "text" THEN PlainText(r) ELSE JsonText(r)

(***************************************************************************)
(* One call of parseRecipeFromResponse on the content of an API response.  *)
(***************************************************************************)
NoResponse == [kind |-> "none", title |-> "absent", ingredients |-> "absent",
               instructions |-> "absent", extra |-> "none", layout |-> "none"]
EmptyRecipe ==
  [title |-> <<>>, description |-> <<>>, ingredients |-> <<>>, instructions |-> <<>>,
   cookTime |-> <<>>, prepTime |-> <<>>, totalTime |-> <<>>, servings |-> Undefined,
   difficulty |-> <<>>, tags |-> <<>>, macros |-> Undefined]
\* parseRecipeFromResponse has not been called
NoResult == [threw |-> FALSE, path |-> "none", recipe |-> EmptyRecipe]

ParseIdle == response = NoResponse /\ parsed = NoResult

\* const recipe = parseRecipeFromResponse(data.choices[0].message.content)
ParseResponse ==
  /\ response.kind # "none"
  /\ parsed.path = "none"
  /\ parsed' = parseRecipeFromResponse(ResponseText(response))
  /\ UNCHANGED <<response, batchVars, photoVars, rateVars, laterVars>>

(***************************************************************************)
(* usePhotoCapture (the hook) and the Index page that renders its state.   *)
(***************************************************************************)
NoPhoto == "<null>"
NoError == <<"<null>">>
\* null, for recipeData and generatedRecipe; a value v is held as <<v>>
NoRecipe == <<>>
\* photoSrc: a data URL of at most, or of more than, 10 * 1024 * 1024 characters
PhotoSources == {"photo", "largePhoto"}
\* the File of the file input: its type and its size
Files == {"image", "largeImage", "notImage", "tooLargeImage"}
Slots == 1 .. MaxUploads
NoUpload == [pc |-> "idle", photoSrc |-> NoPhoto]

ApiRequestFailed == <<"API", " ", "request", " ", "failed", " ", "with", " ", "status", ":", " ", "500">>
FailedToFetch == <<"Failed", " ", "to", " ", "fetch">>
InvalidRecipeMessage ==
  <<"Failed", " ", "to", " ", "generate", " ", "a", " ", "valid", " ", "recipe", ".", " ", "Please", " ", "try", " ", "again", " ", "with", " ", "a", " ", "clearer", " ", "food", " ", "image", ".">>
NoIngredientsMessage ==
  <<"Couldn", "'", "t", " ", "identify", " ", "ingredients", " ", "in", " ", "this", " ", "dish", ".", " ", "Please", " ", "try", " ", "a", " ", "different", " ", "image", ".">>
ConnectionFailedMessage ==
  <<"Connection", " ", "to", " ", "the", " ", "recipe", " ", "service", " ", "failed", ".", " ", "Please", " ", "check", " ", "your", " ", "internet", " ", "connection", " ", "and", " ", "try", " ", "again", ".">>
PhotoTooLargeMessage == <<"The", " ", "image", " ", "is", " ", "too", " ", "large", ".", " ", "Please", " ", "use", " ", "a", " ", "smaller", " ", "image", " ", "(", "under", " ", "10", "MB", ")", ".">>
AnalyzeFailedMessage ==
  <<"Failed", " ", "to", " ", "analyze", " ", "the", " ", "food", " ", "image", ".", " ", "Please", " ", "try", " ", "again", " ", "with", " ", "a", " ", "different", " ", "photo", ".">>
NotImageMessage == <<"Please", " ", "select", " ", "an", " ", "image", " ", "file">>
FileTooLargeMessage == <<"The", " ", "image", " ", "is", " ", "too", " ", "large", ".", " ", "Please", " ", "select", " ", "an", " ", "image", " ", "under", " ", "10", "MB", ".">>
ReadErrorMessage == <<"Error", " ", "reading", " ", "file", ".", " ", "Please", " ", "try", " ", "a", " ", "different", " ", "image", ".">>
IngredientsSentinel ==
  <<"Ingredients", " ", "could", " ", "not", " ", "be", " ", "detected", ".", " ", "Please", " ", "try", " ", "again", " ", "with", " ", "a", " ", "clearer", " ", "image", ".">>
InstructionsSentinel ==
  <<"Instructions", " ", "could", " ", "not", " ", "be", " ", "detected", ".", " ", "Please", " ", "try", " ", "again", " ", "with", " ", "a", " ", "clearer", " ", "image", ".">>
DefaultDescription == <<"A", " ", "delicious", " ", "homemade", " ", "recipe", ".">>
HeaderMarker == <<"#", "#", "HEADER", "#", "#", " ">>

\* String.prototype.includes
Includes(s, sub) ==
  \E j \in 1 .. (Len(s) - Len(sub) + 1) : SubSeq(s, j, j + Len(sub) - 1) = sub
\* String.prototype.startsWith(prefix)
HasPrefix(s, prefix) == Len(s) >= Len(prefix) /\ SubSeq(s, 1, Len(prefix)) = prefix

\* .replace(/\*\*/g, '').replace(/\*/g, '').replace(/^#+\s+/gm, '')
\* .replace(/__/g, '').replace(/_/g, '').trim()
StripFormattingSteps ==
  Step(RegExp(Lit("*") \o Lit("*"), {"g"}), <<>>)
  \o Step(RegExp(Lit("*"), {"g"}), <<>>)
  \o Step(RegExp(Bol \o Plus(Lit("#")) \o Plus(Space), {"g", "m"}), <<>>)
  \o Step(RegExp(Lit("_") \o Lit("_"), {"g"}), <<>>)
  \o Step(RegExp(Lit("_"), {"g"}), <<>>)
StripFormatting(text) == Trim(ReplaceEach(text, StripFormattingSteps, 1))

\* cleanForValidation (usePhotoCapture.tsx)
cleanForValidation(text) == IF text = <<>> THEN <<>> ELSE StripFormatting(text)

\* cleanFormatting (Index.tsx)
cleanFormatting(text) ==
  IF text = <<>> THEN <<>>
  ELSE IF HasPrefix(text, HeaderMarker)
  THEN HeaderMarker \o StripFormatting(SubSeq(text, Len(HeaderMarker) + 1, Len(text)))
  ELSE StripFormatting(text)

MapCleanFormatting(lines) == [j \in DOMAIN lines |-> cleanFormatting(lines[j])]
\* a || b for strings
StrOr(a, b) == IF a # <<>> THEN a ELSE b

\* the safeRecipe object of the effect
safeRecipe(recipe) ==
  [title |-> StrOr(cleanFormatting(recipe.title), HomemadeDish),
   description |-> StrOr(cleanFormatting(recipe.description), DefaultDescription),
   ingredients |-> IF Len(recipe.ingredients) > 0
                   THEN MapCleanFormatting(recipe.ingredients)
                   ELSE <<IngredientsSentinel>>,
   instructions |-> IF Len(recipe.instructions) > 0
                    THEN recipe.instructions
                    ELSE <<InstructionsSentinel>>,
   cookTime |-> StrOr(cleanFormatting(recipe.cookTime), DefaultCookTime),
   servings |-> OrElse(recipe.servings, Num(DefaultServings)),
   imageUrl |-> IF photo # NoPhoto THEN photo ELSE "https://via.placeholder.com/400",
   tags |-> MapCleanFormatting(recipe.tags)]

\* the responses the vision API answers a photo with
PhotoResponses ==
  { r \in Responses : /\ r.kind \in {"json", "text"}
                       /\ r.layout \in {"compact", "lines"}
                       /\ r.extra = "none"
                       /\ r.title \in {"string", "label", "fence"}
                       /\ r.ingredients \in {"absent", "strings", "empty", "list"} }
\* return { recipe }: the recipes analyzeFood can resolve with
AnalysisOutcomes == { parseRecipeFromResponse(ResponseText(r)).recipe : r \in PhotoResponses }
\* the errors analyzeFood can reject with: !response.ok, or fetch failed
AnalysisErrors == {ApiRequestFailed, FailedToFetch}

\* {!isCapturingPhoto && !photo && !generatedRecipe && ( ...the two buttons... )}
Landing == ~isCapturingPhoto /\ photo = NoPhoto /\ generatedRecipe = NoRecipe

FreeSlots == { s \in Slots : uploads[s].pc = "idle" }
FreeSlot == CHOOSE s \in FreeSlots : \A o \in FreeSlots : s <= o

PhotoInit ==
  /\ photo = NoPhoto
  /\ isCapturingPhoto = FALSE
  /\ isProcessing = FALSE
  /\ error = NoError
  /\ recipeData = NoRecipe
  /\ generatedRecipe = NoRecipe
  /\ uploads = [s \in Slots |-> NoUpload]

startCapture ==
  /\ Landing
  /\ isCapturingPhoto' = TRUE
  /\ error' = NoError
  /\ UNCHANGED <<photo, isProcessing, recipeData, generatedRecipe, uploads>>
  /\ UNCHANGED <<batchVars, parseVars, rateVars, laterVars>>

cancelCapture ==
  /\ isCapturingPhoto
  /\ isCapturingPhoto' = FALSE
  /\ UNCHANGED <<photo, isProcessing, error, recipeData, generatedRecipe, uploads>>
  /\ UNCHANGED <<batchVars, parseVars, rateVars, laterVars>>

\* processPhoto up to `await analyzeFood(photoSrc)`
processPhoto(slot, photoSrc) ==
  /\ photo' = photoSrc
  /\ isCapturingPhoto' = FALSE
  /\ isProcessing' = TRUE
  /\ error' = NoError
  /\ uploads' = [uploads EXCEPT ![slot] = [pc |-> "analysing", photoSrc |-> photoSrc]]
  /\ UNCHANGED <<recipeData, generatedRecipe>>

\* <CameraComponent onCapture={submitPhoto} />
submitPhoto(photoSrc) ==
  /\ isCapturingPhoto
  /\ FreeSlots # {}
  /\ processPhoto(FreeSlot, photoSrc)
  /\ UNCHANGED <<batchVars, parseVars, rateVars, laterVars>>

handleFileUpload(file) ==
  /\ Landing
  /\ IF file = "notImage"
     THEN error' = NotImageMessage /\ UNCHANGED uploads
     ELSE IF file = "tooLargeImage"
     THEN error' = FileTooLargeMessage /\ UNCHANGED uploads
     ELSE /\ FreeSlots # {}
          /\ error' = NoError
          /\ uploads' = [uploads EXCEPT ![FreeSlot] =
                           [pc |-> "reading",
                            photoSrc |-> IF file = "largeImage" THEN "largePhoto" ELSE "photo"]]
  /\ UNCHANGED <<photo, isCapturingPhoto, isProcessing, recipeData, generatedRecipe>>
  /\ UNCHANGED <<batchVars, parseVars, rateVars, laterVars>>

\* reader.onload
readerOnLoad(slot) ==
  /\ uploads[slot].pc = "reading"
  /\ processPhoto(slot, uploads[slot].photoSrc)
  /\ UNCHANGED <<batchVars, parseVars, rateVars, laterVars>>

\* reader.onerror
readerOnError(slot) ==
  /\ uploads[slot].pc = "reading"
  /\ error' = ReadErrorMessage
  /\ uploads' = [uploads EXCEPT ![slot] = NoUpload]
  /\ UNCHANGED <<photo, isCapturingPhoto, isProcessing, recipeData, generatedRecipe>>
  /\ UNCHANGED <<batchVars, parseVars, rateVars, laterVars>>

\* the message the catch block of processPhoto shows for err.message
ErrorMessageFor(message, photoSrc) ==
  IF Includes(message, <<"API", " ", "request", " ", "failed">>) THEN ConnectionFailedMessage
  ELSE IF Includes(message, <<"Failed", " ", "to", " ", "generate">>) THEN message
  ELSE IF Includes(message, <<"Couldn", "'", "t", " ", "identify">>) THEN message
  ELSE IF photoSrc = "largePhoto" THEN PhotoTooLargeMessage
  ELSE AnalyzeFailedMessage

\* catch (err) { setError(...); setRecipeData(null) } finally { setIsProcessing(false) }
Catch(slot, message) ==
  /\ error' = ErrorMessageFor(message, uploads[slot].photoSrc)
  /\ recipeData' = NoRecipe
  /\ isProcessing' = FALSE
  /\ uploads' = [uploads EXCEPT ![slot] = NoUpload]

\* mutant: a recipe without ingredients passes the validation
HasIngredients_NoCheck(recipe) == TRUE

\* !(!result.recipe.ingredients || result.recipe.ingredients.length === 0)
HasIngredients(recipe) == Len(recipe.ingredients) # 0

\* !(!cleanTitle || cleanTitle === "json")
HasValidTitle(recipe) ==
  LET cleanTitle == cleanForValidation(recipe.title)
  IN cleanTitle # <<>> /\ cleanTitle # <<"json">>

\* analyzeFood resolved with { recipe }: the rest of processPhoto
analyzeFoodResolves(slot, recipe) ==
  /\ uploads[slot].pc = "analysing"
  /\ IF ~HasValidTitle(recipe) THEN Catch(slot, InvalidRecipeMessage)
     ELSE IF ~HasIngredients(recipe) THEN Catch(slot, NoIngredientsMessage)
     ELSE /\ recipeData' = <<recipe>>
          /\ isProcessing' = FALSE
          /\ uploads' = [uploads EXCEPT ![slot] = NoUpload]
          /\ UNCHANGED error
  /\ UNCHANGED <<photo, isCapturingPhoto, generatedRecipe>>
  /\ UNCHANGED <<batchVars, parseVars, rateVars, laterVars>>

\* analyzeFood rejected
analyzeFoodRejects(slot, message) ==
  /\ uploads[slot].pc = "analysing"
  /\ Catch(slot, message)
  /\ UNCHANGED <<photo, isCapturingPhoto, generatedRecipe>>
  /\ UNCHANGED <<batchVars, parseVars, rateVars, laterVars>>

\* useEffect(() => { if (recipeData && !isProcessing) ... setGeneratedRecipe(safeRecipe) })
safeRecipeEffect ==
  /\ recipeData # NoRecipe
  /\ ~isProcessing
  /\ generatedRecipe' = <<safeRecipe(recipeData[1])>>
  /\ UNCHANGED <<photo, isCapturingPhoto, isProcessing, error, recipeData, uploads>>
  /\ UNCHANGED <<batchVars, parseVars, rateVars, laterVars>>

\* the Back button: reset(); setGeneratedRecipe(null)
handleNewRecipe ==
  /\ generatedRecipe # NoRecipe
  /\ photo' = NoPhoto
  /\ isCapturingPhoto' = FALSE
  /\ isProcessing' = FALSE
  /\ error' = NoError
  /\ recipeData' = NoRecipe
  /\ generatedRecipe' = NoRecipe
  /\ UNCHANGED uploads
  /\ UNCHANGED <<batchVars, parseVars, rateVars, laterVars>>

(***************************************************************************)
(* RecipeCard: the processedInstructions memo and the step number shown.   *)
(***************************************************************************)
\* \w
WordChar == NotSet(WhiteSpace \cup Punctuation)
\* /^(Servings|Cooking Time|Difficulty):?\s+\w+$/i
metadataOnly ==
  RegExp(Bol \o Cap(1, Alt(<<Lit("Servings"), Lits(<<"Cook", "ing", " ", "Time">>),
                             Lit("Difficulty")>>))
         \o Opt(Lit(":")) \o Plus(Space) \o Plus(WordChar) \o Eol, {"i"})
\* /^\d+[\.\)]/
leadingNumber == RegExp(Bol \o Plus(Digits) \o Set({".", ")"}), {})
\* /^(\d+)[\.\)]\s+(.+)$/
numberPrefix ==
  RegExp(Bol \o Cap(1, Plus(Digits)) \o Set({".", ")"}) \o Plus(Space)
         \o Cap(2, Plus(AnyChar)) \o Eol, {})
\* /^serve\b|^serving\b/i
serveWord ==
  RegExp(Alt(<<Bol \o Lit("serve") \o WordBoundary, Bol \o Lit("serving") \o WordBoundary>>),
         {"i"})
\* /(cooking time|cook time|total time|servings|serves|yield|difficulty):/i
metadataPattern ==
  RegExp(Cap(1, Alt(<<Lits(<<"cook", "ing", " ", "time">>), Lits(<<"cook", " ", "time">>),
                      Lits(<<"total", " ", "time">>), Lit("servings"), Lit("serves"),
                      Lit("yield"), Lit("difficulty")>>)) \o Lit(":"), {"i"})
\* /\b(Time|servings|difficulty)\b/i
timePattern ==
  RegExp(WordBoundary \o Cap(1, Alt(<<Lit("Time"), Lit("servings"), Lit("difficulty")>>))
         \o WordBoundary, {"i"})
\* /\.\s+[A-Z]/
sentenceBreak == RegExp(Lit(".") \o Plus(Space) \o Set(UpperTokens), {})
\* /\.\s+(Cooking Time|Cook Time|Servings|Difficulty)/i
metadataAfterPeriodPattern ==
  RegExp(Lit(".") \o Plus(Space)
         \o Cap(1, Alt(<<Lits(<<"Cook", "ing", " ", "Time">>), Lits(<<"Cook", " ", "Time">>),
                         Lit("Servings"), Lit("Difficulty")>>)), {"i"})
\* the first of indexOf("Cooking Time:"), indexOf("Servings:"), indexOf("Difficulty:")
firstMarker ==
  RegExp(Alt(<<Lits(<<"Cook", "ing", " ", "Time", ":">>), Lits(<<"Servings", ":">>),
               Lits(<<"Difficulty", ":">>)>>), {})

CouldNotBeDetected == <<"could", " ", "not", " ", "be", " ", "detected">>
NoInstructionsDetected == <<"No", " ", "instructions", " ", "detected">>

\* `match && match.index`: a match that does not start the string
FoundInside(match) == match.ok /\ match.start > 1
\* content.substring(0, match.index).trim()
Before(content, match) == Trim(SubSeq(content, 1, match.start - 1))
\* content.substring(0, match.index + 1).trim(), the match starting with a period
Through(content, match) == Trim(SubSeq(content, 1, match.start))

\* lines 310-318: the sentence before the time marker
SentenceOf(contentBeforeTime, periodMatch) ==
  IF FoundInside(periodMatch) THEN Through(contentBeforeTime, periodMatch)
  ELSE Trim(contentBeforeTime)
CutAtTime(content, timeMatch) ==
  IF FoundInside(timeMatch)
  THEN SentenceOf(SubSeq(content, 1, timeMatch.start - 1),
                  Match(SubSeq(content, 1, timeMatch.start - 1), sentenceBreak))
  ELSE content
\* lines 322-326
CutAfterPeriod(content, metadataAfterPeriod) ==
  IF FoundInside(metadataAfterPeriod) THEN Through(content, metadataAfterPeriod) ELSE content
\* lines 328-342
CutAtMarker(content, marker) == IF marker.ok THEN Before(content, marker) ELSE content

BeforeTime(content) == CutAtTime(content, Match(content, timePattern))
AfterPeriod(content) == CutAfterPeriod(content, Match(content, metadataAfterPeriodPattern))
AtMarker(content) == CutAtMarker(content, Match(content, firstMarker))

\* lines 294-343: the serving instruction without the metadata after it
WithoutMetadata(content, match) ==
  IF FoundInside(match) THEN Before(content, match)
  ELSE AtMarker(AfterPeriod(BeforeTime(content)))

\* trimmedInstruction.toLowerCase().startsWith('serve:')
StartsWithServe(s) == Len(s) >= 2 /\ LowerTok(s[1]) = "serve" /\ s[2] = ":"
\* lines 289-291
IsServe(trimmedInstruction, hasNumber, content) ==
  \/ StartsWithServe(trimmedInstruction)
  \/ hasNumber /\ StartsWithServe(content)
  \/ hasNumber /\ RegTest(serveWord, content)

\* lines 270-273
IsHeader(trimmedInstruction) ==
  /\ StrLen(trimmedInstruction) < 40
  /\ EndsWith(trimmedInstruction, ":")
  /\ ~RegTest(leadingNumber, trimmedInstruction)

\* parseInt(numberMatch[1], 10), or null
StepNumber(trimmedInstruction, numberMatch) ==
  IF numberMatch.ok THEN <<ParseIntStr(GroupOf(trimmedInstruction, numberMatch, 1))>> ELSE <<>>

\* lines 344-351: the object returned for an instruction
Item(trimmedInstruction, hasNumber, stepNumber, content) ==
  [originalText |-> trimmedInstruction,
   content |-> IF IsServe(trimmedInstruction, hasNumber, content)
               THEN WithoutMetadata(content, Match(content, metadataPattern))
               ELSE content,
   isHeader |-> IsHeader(trimmedInstruction),
   hasLeadingNumber |-> hasNumber,
   stepNumber |-> stepNumber,
   isError |-> FALSE]
\* lines 276-286
NumberedItem(trimmedInstruction, numberMatch) ==
  Item(trimmedInstruction, numberMatch.ok, StepNumber(trimmedInstruction, numberMatch),
       IF numberMatch.ok THEN Trim(GroupOf(trimmedInstruction, numberMatch, 2))
       ELSE trimmedInstruction)
TrimmedItem(trimmedInstruction) ==
  NumberedItem(trimmedInstruction, Match(trimmedInstruction, numberPrefix))
\* the callback of filteredInstructions.map
ProcessInstruction(instruction) == TrimmedItem(Trim(instruction))

\* the callback of recipe.instructions.filter
NotMetadataOnly(instruction) == ~RegTest(metadataOnly, Trim(instruction))
filteredInstructions(instructions) == SelectSeq(instructions, NotMetadataOnly)
MapProcess(filtered) == [j \in DOMAIN filtered |-> ProcessInstruction(filtered[j])]

\* lines 246-253
ErrorItem(text) ==
  [originalText |-> text, content |-> text, isHeader |-> FALSE, hasLeadingNumber |-> FALSE,
   stepNumber |-> <<>>, isError |-> TRUE]

\* the callback of the processedInstructions memo.  The condition is
\* (length === 1 && [0].includes(a)) || [0].includes(b): the second includes
\* is evaluated on instructions[0] whatever the length, and reading
\* .includes of undefined throws a TypeError
processedInstructions(instructions) ==
  IF Len(instructions) = 1 /\ Includes(instructions[1], CouldNotBeDetected)
  THEN Returned(<<ErrorItem(instructions[1])>>)
  ELSE IF instructions = <<>> THEN Thrown
  ELSE IF Includes(instructions[1], NoInstructionsDetected)
  THEN Returned(<<ErrorItem(instructions[1])>>)
  ELSE Returned(MapProcess(filteredInstructions(instructions)))

\* mutant: the steps are numbered by their position
displayNumber_Renumbered(items, j) ==
  j - Cardinality({k \in 1 .. (j - 1) : items[k].isHeader})
\* lines 647-649: the number shown next to the step at position j (from 1)
displayNumber(items, j) ==
  IF items[j].hasLeadingNumber THEN items[j].stepNumber[1]
  ELSE j - Cardinality({k \in 1 .. (j - 1) : items[k].isHeader})

\* lib/recipes.ts: the rows of popular_recipes, by their instructions column
StoredRows ==
  { [instructions |-> i] :
      i \in {Null, Arr(<<>>),
             Arr(<<InstructionsSentinel>>),
             Arr(<<<<"No", " ", "instructions", " ", "detected", ".", " ", "Try", " ", "uploading", " ", "a", " ", "clearer", " ", "image", " ", "of", " ", "the", " ", "dish", ".">>>>),
             Arr(<<<<"No", " ", "instructions", " ", "detected", ".">>, <<"2", ".", " ", "Bake", ".">>>>),
             Arr(<<InstructionsSentinel, <<"2", ".", " ", "Bake", ".">>>>),
             Arr(<<<<"1", ".", " ", "Mix", ".">>, InstructionsSentinel>>),
             Arr(<<<<"Servings", ":", " ", "4">>, <<"1", ")", " ", "Mix", ".">>, <<"Bake", ".">>>>),
             Arr(<<<<"Sauce", ":">>, <<"Mix", ".">>, <<"Serve", ":", " ", "warm", ".", " ", "Total", " ", "Time", " ", "20", " ", "mins">>>>),
             Arr(<<<<"2", ".", " ", "Serving", " ", "hot", ".", " ", "Difficulty", " ", "Easy">>, <<"3", ".", " ", "Serve", " ", "warm", ".", " ", "Servings", ":", " ", "4">>>>)} }
\* instructions: recipe.instructions || []
convertSupabaseRecipe(row) ==
  [instructions |-> IF row.instructions = Null THEN <<>> ELSE row.instructions.v]

\* the responses whose recipe is shown in a card
CardResponses ==
  [kind : {"text"}, title : {"absent", "label"}, ingredients : {"absent", "list"},
   instructions : {"absent", "numbered", "prose", "gapped", "serve"},
   extra : {"none", "meta"}, layout : {"lines", "unterminated"}]
  \cup
  [kind : {"json"}, title : {"string"}, ingredients : {"strings"},
   instructions : {"absent", "strings"}, extra : {"none"}, layout : {"compact"}]

\* setGeneratedRecipe(safeRecipe); <RecipeCard recipe={generatedRecipe} />
showRecipe ==
  /\ parsed.path # "none"
  /\ cardInstructions = NoProp
  /\ cardInstructions' = <<safeRecipe(parsed.recipe).instructions>>
  /\ UNCHANGED <<processedResult, coreVars, thirdVars, cleanVars, pureVars, articleVars>>

\* <RecipeCard key={recipe.id} recipe={recipe} /> for a popular recipe
showPopular(row) ==
  /\ response.kind = "none"
  /\ cardInstructions = NoProp
  /\ cardInstructions' = <<convertSupabaseRecipe(row).instructions>>
  /\ UNCHANGED <<processedResult, coreVars, thirdVars, cleanVars, pureVars, articleVars>>

\* the first render of the card evaluates the memo
renderCard ==
  /\ cardInstructions # NoProp
  /\ processedResult = NotRendered
  /\ processedResult' = <<processedInstructions(cardInstructions[1])>>
  /\ UNCHANGED <<cardInstructions, coreVars, thirdVars, cleanVars, pureVars, articleVars>>

(***************************************************************************)
(* enforceRateLimit: the module-level lastApiCall and the tasks calling it.*)
(***************************************************************************)
Callers == 1 .. MaxCallers
NotCalling == [pc |-> "idle", wakeAt |-> 0]

\* const minDelay = API_RATE_WINDOW / API_RATE_LIMIT
minDelay == API_RATE_WINDOW \div API_RATE_LIMIT

\* the module is loaded long after the epoch: Date.now() - 0 >= minDelay
RateInit ==
  /\ clock = API_RATE_WINDOW
  /\ lastApiCall = 0
  /\ callers = [c \in Callers |-> NotCalling]
  /\ releases = <<>>

Sleeping == { c \in Callers : callers[c].pc = "sleeping" }

\* time passes
Tick ==
  /\ clock + TickMs <= MaxClock
  /\ clock' = clock + TickMs
  /\ UNCHANGED <<lastApiCall, callers, releases>>
  /\ UNCHANGED <<batchVars, parseVars, photoVars, laterVars>>

\* a task calls enforceRateLimit(): up to the await, or to the end if it does not sleep
enforceRateLimit(c) ==
  /\ callers[c].pc = "idle"
  /\ Len(releases) + Cardinality(Sleeping) < MaxReleases
  /\ LET now == clock
         timeSinceLastCall == now - lastApiCall
     IN IF timeSinceLastCall < minDelay
        THEN LET delay == minDelay - timeSinceLastCall
             IN /\ callers' = [callers EXCEPT ![c] = [pc |-> "sleeping", wakeAt |-> now + delay]]
                /\ UNCHANGED <<lastApiCall, releases>>
        ELSE /\ lastApiCall' = clock
             /\ releases' = Append(releases, clock)
             /\ UNCHANGED callers
  /\ UNCHANGED clock
  /\ UNCHANGED <<batchVars, parseVars, photoVars, laterVars>>

\* await sleep(delay) resolved: lastApiCall = Date.now(), and the request goes out
sleepResolves(c) ==
  /\ callers[c].pc = "sleeping"
  /\ clock >= callers[c].wakeAt
  /\ lastApiCall' = clock
  /\ releases' = Append(releases, clock)
  /\ callers' = [callers EXCEPT ![c] = NotCalling]
  /\ UNCHANGED clock
  /\ UNCHANGED <<batchVars, parseVars, photoVars, laterVars>>

(***************************************************************************)
(* generateRecipes / generateArticles: one batch.                          *)
(***************************************************************************)
NoTitle == <<"<none>">>
\* what the cache holds before the batch: an entry that is none of the items
NoCache == {<<"<nocache>">>}

Indices == 0 .. (MaxCount - 1)

Min(a, b) == IF a < b THEN a ELSE b

(***************************************************************************)
(* Titles are character sequences; the generator returns one of these.     *)
(***************************************************************************)
Titles == { <<"A">>, <<"a", " ">>, <<"b">> }

\* String.prototype.toLowerCase on the model's alphabet
LowerChar(c) == IF c = "A" THEN "a" ELSE IF c = "B" THEN "b" ELSE c
ToLowerCase(s) == [i \in DOMAIN s |-> LowerChar(s[i])]

\* mutant: the title is lower-cased but not trimmed
NormalizeTitle_NoTrim(title) == ToLowerCase(title)

\* recipe.title.toLowerCase().trim()
NormalizeTitle(title) == Trim(ToLowerCase(title))

\* `${recipe.title} #${randomSuffix}`
SuffixedTitle(title, randomSuffix) == title \o <<" ", "#", randomSuffix>>
RandomSuffixes == {"0", "1"}

(***************************************************************************)
(* runNext: start the next index if any is left; recurse while fewer than  *)
(* concurrentLimit are active.  s is the record of the variables it writes.*)
(***************************************************************************)
RECURSIVE runNext(_)
runNext(s) ==
  IF s.currentIndex >= count THEN s
  ELSE LET indexToProcess == s.currentIndex
           s1 == [s EXCEPT !.currentIndex = @ + 1,
                           !.activePromises = @ + 1,
                           !.pc[indexToProcess] = "calling",
                           !.invocations[indexToProcess] = @ + 1,
                           !.promises = @ \cup {indexToProcess}]
       IN IF s1.activePromises < concurrentLimit THEN runNext(s1) ELSE s1

\* for (let i = 0; i < Math.min(concurrentLimit, count); i++) runNext();
RECURSIVE StartLoop(_, _)
StartLoop(s, i) ==
  IF i < Min(concurrentLimit, count) THEN StartLoop(runNext(s), i + 1) ELSE s

Sched == [currentIndex |-> currentIndex, activePromises |-> activePromises,
          pc |-> pc, invocations |-> invocations, promises |-> promises]

SetSched(s) ==
  /\ currentIndex' = s.currentIndex
  /\ activePromises' = s.activePromises
  /\ pc' = s.pc
  /\ invocations' = s.invocations
  /\ promises' = s.promises

\* mutant: the .finally callback does not call runNext()
Finally_NoRunNext(s, index) ==
  SetSched([s EXCEPT !.pc[index] = "done", !.activePromises = @ - 1])

\* The task function returned, then its
\* .finally(() => { activePromises--; runNext(); }) ran (a microtask, so no
\* timer or network event comes between the two).
Finally(s, index) ==
  SetSched(runNext([s EXCEPT !.pc[index] = "done", !.activePromises = @ - 1]))

\* The task function returns: its locals (attempt, duplicateCount) are gone.
Return(index) ==
  /\ attempt' = [attempt EXCEPT ![index] = 0]
  /\ duplicateCount' = [duplicateCount EXCEPT ![index] = 0]
  /\ sleepMs' = [sleepMs EXCEPT ![index] = 0]
  /\ Finally([Sched EXCEPT !.invocations[index] = 0], index)

BatchInit ==
  /\ count \in 1 .. MaxCount
  /\ mainPc = "init"
  /\ currentIndex = 0
  /\ activePromises = 0
  /\ promises = {}
  /\ awaited = {}
  /\ pc = [i \in Indices |-> "idle"]
  /\ attempt = [i \in Indices |-> 0]
  /\ duplicateCount = [i \in Indices |-> 0]
  /\ usedTitles = {}
  /\ allGenerated = [i \in Indices |-> NoTitle]
  /\ sleepMs = [i \in Indices |-> 0]
  /\ invocations = [i \in Indices |-> 0]
  /\ generatedCalls = [i \in Indices |-> 0]
  /\ errorCalls = [i \in Indices |-> 0]
  /\ completeCalls = 0
  /\ cache = NoCache

\* generateRecipes up to `await Promise.all(promises)`
StartStep ==
  /\ mainPc = "init"
  /\ LET s == StartLoop(Sched, 0) IN
       /\ SetSched(s)
       /\ awaited' = s.promises
  /\ mainPc' = "awaiting"
  /\ UNCHANGED <<count, attempt, duplicateCount, usedTitles, allGenerated, sleepMs,
                 generatedCalls, errorCalls, completeCalls, cache>>
\* Start, in the specifications in which nothing else takes part
Start ==
  /\ StartStep
  /\ UNCHANGED <<parseVars, photoVars, rateVars, laterVars>>

\* usedTitles.add; allGeneratedRecipes[index] = recipe; onRecipeGenerated(recipe); return
Deliver(index, title) ==
  /\ usedTitles' = usedTitles \cup {NormalizeTitle(title)}
  /\ allGenerated' = [allGenerated EXCEPT ![index] = title]
  /\ generatedCalls' = [generatedCalls EXCEPT ![index] = @ + 1]
  /\ Return(index)

\* mutant: the delay is computed before attempt is incremented
Backoff_StaleAttempt(index, ms) ==
  /\ attempt' = [attempt EXCEPT ![index] = @ + 1]
  /\ pc' = [pc EXCEPT ![index] = "sleeping"]
  /\ sleepMs' = [sleepMs EXCEPT ![index] = ms * attempt[index]]

\* attempt++; await sleep(ms * attempt)
Backoff(index, ms) ==
  /\ attempt' = [attempt EXCEPT ![index] = @ + 1]
  /\ pc' = [pc EXCEPT ![index] = "sleeping"]
  /\ sleepMs' = [sleepMs EXCEPT ![index] = ms * (attempt[index] + 1)]

\* if (onRecipeError) onRecipeError(error, index); then the task function returns
ReportError(index) ==
  /\ errorCalls' = [errorCalls EXCEPT ![index] = @ + 1]
  /\ UNCHANGED <<usedTitles, allGenerated, generatedCalls>>
  /\ Return(index)

\* duplicateCount++ ... attempt++; await sleep(500 * attempt)
RetryDuplicate(index) ==
  /\ duplicateCount' = [duplicateCount EXCEPT ![index] = @ + 1]
  /\ Backoff(index, DuplicateBackoffMs)
  /\ UNCHANGED <<currentIndex, activePromises, promises, invocations, usedTitles,
                 allGenerated, generatedCalls>>

\* _generateSingleRecipe() / generateArticle() resolved with an item titled `title`
GenerateSucceedsStep(index, title) ==
  /\ pc[index] = "calling"
  /\ IF NormalizeTitle(title) \notin usedTitles
     THEN Deliver(index, title)
     ELSE IF duplicateCount[index] + 1 >= maxDuplicateTitles
     THEN \E randomSuffix \in RandomSuffixes :
            IF NormalizeTitle(SuffixedTitle(title, randomSuffix)) \notin usedTitles
            THEN Deliver(index, SuffixedTitle(title, randomSuffix))
            ELSE RetryDuplicate(index)
     ELSE RetryDuplicate(index)
  /\ UNCHANGED <<count, mainPc, awaited, errorCalls, completeCalls, cache>>
\* GenerateSucceeds, in the specifications in which nothing else takes part
GenerateSucceeds(index, title) ==
  /\ GenerateSucceedsStep(index, title)
  /\ UNCHANGED <<parseVars, photoVars, rateVars, laterVars>>

\* _generateSingleRecipe() / generateArticle() rejected: the catch block
GenerateFailsStep(index) ==
  /\ pc[index] = "calling"
  /\ IF attempt[index] + 1 = maxRetries
     THEN ReportError(index)
     ELSE /\ Backoff(index, FailureBackoffMs)
          /\ UNCHANGED <<currentIndex, activePromises, promises, invocations,
                         errorCalls, duplicateCount,
                         usedTitles, allGenerated, generatedCalls>>
  /\ UNCHANGED <<count, mainPc, awaited, completeCalls, cache>>
\* GenerateFails, in the specifications in which nothing else takes part
GenerateFails(index) ==
  /\ GenerateFailsStep(index)
  /\ UNCHANGED <<parseVars, photoVars, rateVars, laterVars>>

\* the sleep() resolved: back to the while condition
WakeStep(index) ==
  /\ pc[index] = "sleeping"
  /\ IF attempt[index] < maxRetries
     THEN /\ pc' = [pc EXCEPT ![index] = "calling"]
          /\ sleepMs' = [sleepMs EXCEPT ![index] = 0]
          /\ invocations' = [invocations EXCEPT ![index] = @ + 1]
          /\ UNCHANGED <<currentIndex, activePromises, promises, errorCalls,
                         attempt, duplicateCount, usedTitles,
                         allGenerated, generatedCalls>>
     ELSE ReportError(index)
  /\ UNCHANGED <<count, mainPc, awaited, completeCalls, cache>>
\* Wake, in the specifications in which nothing else takes part
Wake(index) ==
  /\ WakeStep(index)
  /\ UNCHANGED <<parseVars, photoVars, rateVars, laterVars>>

\* allGeneratedRecipes.filter(Boolean)
SuccessfulItems == { allGenerated[i] : i \in { j \in Indices : allGenerated[j] # NoTitle } }

\* Promise.all(promises) resolved: cache the successful results, call onComplete
CompleteStep ==
  /\ mainPc = "awaiting"
  /\ \A i \in awaited : pc[i] = "done"
  /\ mainPc' = "complete"
  /\ cache' = IF SuccessfulItems # {} THEN SuccessfulItems ELSE cache
  /\ completeCalls' = completeCalls + 1
  /\ UNCHANGED <<count, currentIndex, activePromises, promises, awaited, pc, attempt,
                 duplicateCount, usedTitles, allGenerated, sleepMs, invocations,
                 generatedCalls, errorCalls>>
\* Complete, in the specifications in which nothing else takes part
Complete ==
  /\ CompleteStep
  /\ UNCHANGED <<parseVars, photoVars, rateVars, laterVars>>

\* the empty record store; neither generateRecipe nor generateArticle is called
\* the titles of the recipes generated for the Index page, one per index
PageTitles == [i \in Indices |-> <<"r", "e", "c", "i", "p", "e", " ", ToString(i)>>]
AllTitles == Titles \cup { PageTitles[i] : i \in Indices }
EmptyTable == [t \in AllTitles |-> 0]
StoreIdle ==
  /\ storeKind = "recipe" /\ storePc = "idle" /\ storeItem = NoTitle
  /\ rowsBefore = EmptyTable /\ storeOutcome = "pending"
ThirdIdle == ChatIdle /\ ImageIdle /\ tableRows = EmptyTable /\ StoreIdle /\ PageIdle
             /\ ListIdle
LaterIdle == SecondIdle /\ ThirdIdle

\* a batch of one item, not started: the state of the batch in the other specifications
BatchIdle == BatchInit /\ count = 1

Init == BatchInit /\ ParseIdle /\ PhotoInit /\ RateInit /\ LaterIdle

Next ==
  \/ Start
  \/ \E i \in Indices, t \in Titles : GenerateSucceeds(i, t)
  \/ \E i \in Indices : GenerateFails(i)
  \/ \E i \in Indices : Wake(i)
  \/ Complete

Spec == Init /\ [][Next]_vars

\* batches of at most SmallCount items
InitSmall == Init /\ count <= SmallCount
SpecSmall == InitSmall /\ [][Next]_vars

\* the generator's answers in the batches that are followed to their end
FairTitles == { <<"b">> }
\* a batch of the default size (count: number = 4), whose requests are all answered and
\* whose timers all fire
InitFair == Init /\ count = DefaultCount
NextFair ==
  \/ Start
  \/ \E i \in Indices, t \in FairTitles : GenerateSucceeds(i, t)
  \/ \E i \in Indices : GenerateFails(i)
  \/ \E i \in Indices : Wake(i)
  \/ Complete
SpecFair == InitFair /\ [][NextFair]_vars /\ WF_vars(NextFair)

(***************************************************************************)
(* cleanMarkdown applied to a string and then to its own result.           *)
(***************************************************************************)
CleanAlphabet == {BackTick, "#", " ", "x", "*", ":"}
RECURSIVE StringsOfLen(_)
StringsOfLen(n) ==
  IF n = 0 THEN {<<>>}
  ELSE {<<t>> \o s : t \in CleanAlphabet, s \in StringsOfLen(n - 1)}
\* the strings cleanMarkdown is called with: every string of up to MaxCleanLen
\* lexemes, and two longer ones with a repeated heading marker and a repeated entity
CleanInputs ==
  UNION {StringsOfLen(n) : n \in 0 .. MaxCleanLen}
  \cup {<<"#", " ", "#", " ", "x">>, <<"&", "amp", ";", "amp", ";">>, <<"1", " ", ".", " ", "x">>, <<"x", " ", " ", ":", " ", " ", "x">>}

\* const once = cleanMarkdown(s)
cleanOnce ==
  /\ cleanedOnce = NotCleaned
  /\ cleanedOnce' = <<cleanMarkdown(Str(cleanInput)).v>>
  /\ UNCHANGED <<cleanInput, cleanedTwice, coreVars, thirdVars, cardVars, pureVars, articleVars>>

\* const twice = cleanMarkdown(once)
cleanAgain ==
  /\ cleanedOnce # NotCleaned
  /\ cleanedTwice = NotCleaned
  /\ cleanedTwice' = <<cleanMarkdown(Str(cleanedOnce[1])).v>>
  /\ UNCHANGED <<cleanInput, cleanedOnce, coreVars, thirdVars, cardVars, pureVars, articleVars>>

(***************************************************************************)
(* parseRecipeFromResponse called several times, on the same and on other  *)
(* strings.  The only object a call writes to is the global pattern of     *)
(* extractInstructions, whose test() moves its lastIndex.                  *)
(***************************************************************************)
PureResponses ==
  [kind : {"text"}, title : {"label"}, ingredients : {"absent"},
   instructions : {"absent", "numbered", "prose", "gapped"}, extra : {"none"},
   layout : {"lines"}]
  \cup
  [kind : {"json"}, title : {"string"}, ingredients : {"strings"},
   instructions : {"strings"}, extra : {"none"}, layout : {"compact"}]

\* lastIndex after test(): the end of the match, or 0 when there is none
LastIndexOf(tested) == IF tested.ok THEN tested.end - 1 ELSE 0
\* the lastIndex of the pattern object after extractInstructions(text); the
\* pattern is not made when the text has no instructions section
LastIndexAfterSection(section, previous) ==
  IF section = <<>> THEN previous
  ELSE LastIndexOf(TestNumberedSteps(Trim(SplitFirst(Trim(section), metadataRegex))))
LastIndexAfter(text, path, previous) ==
  IF path # "heuristic" THEN previous
  ELSE LastIndexAfterSection(GroupIfMatched(text, Match(text, instructionsSection)), previous)

\* the call, given the value it returns
RecordCall(r, result) ==
  /\ parseCalls' = Append(parseCalls, [response |-> r, result |-> result])
  /\ stepsLastIndex' = LastIndexAfter(ResponseText(r), result.path, stepsLastIndex)
\* parseRecipeFromResponse(content) for one more response
callParse(r) ==
  /\ Len(parseCalls) < MaxCalls
  /\ RecordCall(r, parseRecipeFromResponse(ResponseText(r)))
  /\ UNCHANGED <<coreVars, thirdVars, cardVars, cleanVars, articleVars>>

(***************************************************************************)
(* articleService.ts: _generateArticleForTopic inside the retry loop of    *)
(* generateSingleArticleWithRetry, for one index.                          *)
(***************************************************************************)
\* data.choices[0].message.content, described by what it holds
ArticleContents ==
  [kind : {"json", "fenced", "broken"}, title : {"absent", "string", "empty", "number"},
   summary : {"absent", "string"}, content : {"absent", "string"}]
  \cup
  [kind : {"prose", "null", "array"}, title : {"absent"}, summary : {"absent"},
   content : {"absent"}]

ArticleMembers(c) ==
  (CASE c.title = "absent" -> <<>>
     [] c.title = "string" -> << <<<<"title">>, <<"\"", "T", "\"">>>> >>
     [] c.title = "empty" -> << <<<<"title">>, <<"\"", "\"">>>> >>
     [] c.title = "number" -> << <<<<"title">>, <<"5">>>> >>)
  \o (IF c.summary = "absent" THEN <<>> ELSE << <<<<"summary">>, <<"\"", "S", "\"">>>> >>)
  \o (IF c.content = "absent" THEN <<>> ELSE << <<<<"content">>, <<"\"", "#", "#", " ", "C", "\"">>>> >>)
  \o << <<<<"tags">>, <<"[", "\"", "a", "\"", "]">>>> >>
ArticleJson(c, ending) ==
  <<"{">> \o JsonMembersText(ArticleMembers(c), "compact", 1) \o ending \o <<"}">>
\* the string the model answered with
ArticleText(c) ==
  CASE c.kind = "json" -> ArticleJson(c, <<>>)
    [] c.kind = "fenced" -> <<"<backtick>", "<backtick>", "<backtick>", "json", "\n">> \o ArticleJson(c, <<>>) \o <<"\n", "<backtick>", "<backtick>", "<backtick>">>
    [] c.kind = "broken" -> ArticleJson(c, <<",">>)
    [] c.kind = "prose" -> <<"Here", " ", "is", " ", "the", " ", "article", ".">>
    [] c.kind = "null" -> <<"null">>
    [] c.kind = "array" -> <<"[", "]">>

\* /```json\s*/ and /```\s*$/
fenceOpen ==
  RegExp(Lit(BackTick) \o Lit(BackTick) \o Lit(BackTick) \o Lit("json") \o Star(Space), {})
fenceClose ==
  RegExp(Lit(BackTick) \o Lit(BackTick) \o Lit(BackTick) \o Star(Space) \o Eol, {})
\* content.replace(/```json\s*/, '').replace(/```\s*$/, '').trim()
StripFence(content) == Trim(Replace(Replace(content, fenceOpen, <<>>), fenceClose, <<>>))

\* what an attempt threw from, or "none"
Normalized(articleData) == [threw |-> FALSE, source |-> "none", data |-> articleData]
Threw(source) == [threw |-> TRUE, source |-> source, data |-> Undefined]

\* articleData.key: undefined for a value that is not an object
FieldOf(articleData, key) ==
  IF articleData.t = "object" THEN Get(articleData, key) ELSE Undefined
\* mutant: only the title is required
HasArticleFields_TitleOnly(articleData) == Truthy(FieldOf(articleData, <<"title">>))
\* !(!articleData.title || !articleData.content || !articleData.summary)
HasArticleFields(articleData) ==
  /\ Truthy(FieldOf(articleData, <<"title">>))
  /\ Truthy(FieldOf(articleData, <<"content">>))
  /\ Truthy(FieldOf(articleData, <<"summary">>))
\* lines 170-173; reading .title of null throws a TypeError
CheckFields(articleData) ==
  IF articleData = Null THEN Threw("type")
  ELSE IF HasArticleFields(articleData) THEN Normalized(articleData)
  ELSE Threw("fields")
\* lines 161-167: the second JSON.parse, on the content without its fence
AfterCleanup(second) == IF second.ok THEN CheckFields(second.val) ELSE Threw("parse")
\* lines 157-168
AfterFirstParse(content, first) ==
  IF first.ok THEN CheckFields(first.val) ELSE AfterCleanup(JsonParse(StripFence(content)))
\* lines 156-173: the articleData of a response, or the error thrown
NormalizeArticle(content) == AfterFirstParse(content, JsonParse(content))

FallbackImageUrl == "https://source.unsplash.com/800x400/?food,cooking"
GeneratedImageUrl == "generated"
DefaultReadTime == <<"4", " ", "min", " ", "read">>
\* lines 189-198 (id and publishedAt, taken from the clock, are left out)
ArticleOf(articleData, generatedImageUrl) ==
  [title |-> Get(articleData, <<"title">>),
   content |-> Get(articleData, <<"content">>),
   summary |-> Get(articleData, <<"summary">>),
   imageUrl |-> generatedImageUrl,
   readTime |-> OrElse(Get(articleData, <<"read", "Time">>), Str(DefaultReadTime)),
   tags |-> IF IsArray(Get(articleData, <<"tags">>)) THEN Get(articleData, <<"tags">>)
            ELSE Arr(<<>>)]

\* while (attempt < maxRetries) { try { const article = await generateArticle()
callGenerateArticle ==
  /\ articlePc \in {"idle", "sleeping"}
  /\ articleAttempt < maxRetries
  /\ articlePc' = "fetching"
  /\ articleContent' = NoContent
  /\ normalizedData' = NoArticle
  /\ UNCHANGED <<articleAttempt, articleFailures, articleReturned,
                 coreVars, thirdVars, cardVars, cleanVars, pureVars>>

\* the catch block of the loop: attempt++, then onArticleError after the
\* last attempt, else sleep(1000 * attempt)
AttemptFailed(source) ==
  /\ articleFailures' = Append(articleFailures, source)
  /\ articleAttempt' = articleAttempt + 1
  /\ articlePc' = IF articleAttempt + 1 = maxRetries THEN "failed" ELSE "sleeping"
  /\ normalizedData' = NoArticle
  /\ UNCHANGED articleReturned

\* !response.ok (or fetch rejected): throw new ArticleGenerationError(...)
fetchRejects ==
  /\ articlePc = "fetching"
  /\ AttemptFailed("api")
  /\ UNCHANGED <<articleContent, coreVars, thirdVars, cardVars, cleanVars, pureVars>>

\* the response given the outcome of normalizing its content
Received(outcome) ==
  IF outcome.threw THEN AttemptFailed(outcome.source)
  ELSE /\ normalizedData' = <<outcome.data>>
       /\ articlePc' = "image"
       /\ UNCHANGED <<articleAttempt, articleFailures, articleReturned>>
\* const data = await response.json(); ... the checks of lines 153-173
fetchResolves(c) ==
  /\ articlePc = "fetching"
  /\ articleContent' = c
  /\ Received(NormalizeArticle(ArticleText(c)))
  /\ UNCHANGED <<coreVars, thirdVars, cardVars, cleanVars, pureVars>>

\* lines 178-227: the image (or the fallback URL when generating it throws),
\* the Article, the store call (which catches its own errors), the return
imageSettles(generatedImageUrl) ==
  /\ articlePc = "image"
  /\ articleReturned' = <<ArticleOf(normalizedData[1], generatedImageUrl)>>
  /\ articlePc' = "done"
  /\ UNCHANGED <<articleAttempt, articleContent, normalizedData, articleFailures,
                 coreVars, thirdVars, cardVars, cleanVars, pureVars>>

(***************************************************************************)
(* sendMessageToExpert / sendMessageToChef: one streamed response.  The    *)
(* SSE stream is a sequence of lexemes; reader.read() returns any non-empty *)
(* prefix of what is unread.                                               *)
(***************************************************************************)
\* the text `{"choices":[{"delta":{"content":"` and the text `"}}]}` of an event
JsonOpen == "{choices:[{delta:{content:"
JsonClose == "}}]}"
\* the two characters backslash and n inside a JSON string
EscapedNewline == "\\n"
ContentLexemes == {"a", "b", EscapedNewline}
DataPrefix == <<"data:", " ">>
DoneMarker == "[DONE]"

\* the content of one delta; the first event of a response carries none
Deltas == { <<>>, <<"a">>, <<"a", "b">>, <<EscapedNewline>> }
DeltaSeqs == UNION { [1 .. n -> Deltas] : n \in 1 .. MaxDeltas }

\* one event as the server writes it: data: {json}\n\n
EventLine(delta) == DataPrefix \o <<JsonOpen>> \o delta \o <<JsonClose, "\n", "\n">>
DoneLine == DataPrefix \o <<DoneMarker, "\n", "\n">>
RECURSIVE StreamOf(_)
StreamOf(deltas) ==
  IF deltas = <<>> THEN DoneLine ELSE EventLine(Head(deltas)) \o StreamOf(Tail(deltas))

Range(s) == { s[j] : j \in DOMAIN s }

RECURSIVE SplitOn(_, _, _)
\* String.prototype.split(sep): piece is the piece being collected
SplitOn(s, sep, piece) ==
  IF s = <<>> THEN <<piece>>
  ELSE IF Head(s) = sep THEN <<piece>> \o SplitOn(Tail(s), sep, <<>>)
  ELSE SplitOn(Tail(s), sep, Append(piece, Head(s)))

\* line => line.trim().startsWith('data: ')
IsDataLine(line) == HasPrefix(Trim(line), DataPrefix)

RECURSIVE FromFirstBrace(_)
\* the suffix of the line from its first '{', or <<>> if it has none
FromFirstBrace(line) ==
  IF line = <<>> THEN <<>>
  ELSE IF Head(line) = JsonOpen THEN line
  ELSE FromFirstBrace(Tail(line))
\* line.substring(line.indexOf('{')): substring(-1) is the whole line
JsonStringOf(line) == IF JsonOpen \in Range(line) THEN FromFirstBrace(line) ELSE line

\* JSON.parse of a string escape
DecodeLexeme(c) == IF c = EscapedNewline THEN "\n" ELSE c
\* JSON.parse(jsonString) then data.choices[0]?.delta?.content || '': the
\* text must be one whole event object, white space may follow it
ParseEvent(trimmed) ==
  IF /\ Len(trimmed) >= 2
     /\ trimmed[1] = JsonOpen
     /\ trimmed[Len(trimmed)] = JsonClose
     /\ \A j \in 2 .. (Len(trimmed) - 1) : trimmed[j] \in ContentLexemes
  THEN Returned([j \in 1 .. (Len(trimmed) - 2) |-> DecodeLexeme(trimmed[j + 1])])
  ELSE Thrown
contentDeltaOf(line) == ParseEvent(Trim(JsonStringOf(line)))

RECURSIVE DoubleBreaks(_)
\* .replace(/\n(?!\n)/g, '\n\n')
DoubleBreaks(s) ==
  IF s = <<>> THEN <<>>
  ELSE IF Head(s) = "\n" /\ (Len(s) = 1 \/ s[2] # "\n")
  THEN <<"\n", "\n">> \o DoubleBreaks(Tail(s))
  ELSE <<Head(s)>> \o DoubleBreaks(Tail(s))

RECURSIVE SkipBreaks(_)
SkipBreaks(s) == IF s # <<>> /\ Head(s) = "\n" THEN SkipBreaks(Tail(s)) ELSE s
RECURSIVE CollapseBreaks(_)
\* .replace(/\n{3,}/g, '\n\n')
CollapseBreaks(s) ==
  IF s = <<>> THEN <<>>
  ELSE IF Len(s) >= 3 /\ s[1] = "\n" /\ s[2] = "\n" /\ s[3] = "\n"
  THEN <<"\n", "\n">> \o CollapseBreaks(SkipBreaks(s))
  ELSE <<Head(s)>> \o CollapseBreaks(Tail(s))

\* formatChefResponse
formatChefResponse(text) == CollapseBreaks(DoubleBreaks(text))
\* formatExpertResponse: the same replacements, then .trim()
formatExpertResponse(text) == Trim(CollapseBreaks(DoubleBreaks(text)))

Ellipsis == <<"...">>
\* the text of an intermediate onChunk call
IntermediateText(service, accumulated) ==
  IF service = "expert" THEN formatExpertResponse(accumulated \o Ellipsis)
  ELSE formatChefResponse(accumulated)
\* the text of the onChunk call made when the stream has ended
FinalText(service, accumulated) ==
  IF service = "expert" THEN formatExpertResponse(accumulated)
  ELSE formatChefResponse(accumulated)

Chunk(text, done) == [text |-> text, done |-> done]

\* one iteration of `for (const line of lines)`: acc is [accumulated, last]
AfterLine(service, acc, line, parsedDelta) ==
  IF DoneMarker \in Range(line) THEN acc
  ELSE IF parsedDelta.threw \/ parsedDelta.v = <<>> THEN acc
  ELSE [accumulated |-> acc.accumulated \o parsedDelta.v,
        last |-> Chunk(IntermediateText(service, acc.accumulated \o parsedDelta.v), FALSE)]

RECURSIVE ProcessLines(_, _, _)
ProcessLines(service, acc, lines) ==
  IF lines = <<>> THEN acc
  ELSE ProcessLines(service,
                    AfterLine(service, acc, Head(lines), contentDeltaOf(Head(lines))),
                    Tail(lines))

\* chunk.split('\n').filter(...) and the loop over the lines
AfterChunk(service, acc, chunk) ==
  ProcessLines(service, acc, SelectSeq(SplitOn(chunk, "\n", <<>>), IsDataLine))

Streaming == ~lastChunk.done

SetAccumulated(after) ==
  /\ accumulatedResponse' = after.accumulated
  /\ lastChunk' = after.last

\* reader.read() resolved with the next n lexemes of the stream
readChunk(n) ==
  /\ Streaming
  /\ n \in 1 .. Len(sseUnread)
  /\ SetAccumulated(AfterChunk(chatService,
                               [accumulated |-> accumulatedResponse, last |-> lastChunk],
                               SubSeq(sseUnread, 1, n)))
  /\ sseUnread' = SubSeq(sseUnread, n + 1, Len(sseUnread))
  /\ UNCHANGED <<chatService, sseDeltas, exceptChat>>

\* reader.read() resolved with done: onChunk(format(accumulatedResponse), true)
readDone ==
  /\ Streaming
  /\ sseUnread = <<>>
  /\ sseDeltas # <<>>
  /\ lastChunk' = Chunk(FinalText(chatService, accumulatedResponse), TRUE)
  /\ UNCHANGED <<chatService, sseDeltas, sseUnread, accumulatedResponse, exceptChat>>

(***************************************************************************)
(* generateImageFromPrompt: one call.                                      *)
(***************************************************************************)
\* const maxRetries = 2 of the image request
imageMaxRetries == 2
\* FOOD_FALLBACKS, by index
FOOD_FALLBACKS == 0 .. 7
\* the data URL built from b64_json, and the one made by canvas.toDataURL
Base64DataUrl == <<"data:image/jpeg;base64,", "b64_json">>
CanvasDataUrl == <<"canvas.toDataURL">>

Resolved(value) == [kind |-> "resolved", value |-> value]
\* return getRandomFallback()
ReturnFallback(fallback) ==
  /\ imagePc' = "settled"
  /\ imageOutcome' = Resolved(<<"fallback", fallback>>)

\* generateImageFromPrompt(prompt) up to `await enforceRateLimit()`
callGenerateImage(hasApiKey, promptIsValid) ==
  /\ imagePc = "idle"
  /\ imageEvents' = <<>>
  /\ IF ~hasApiKey \/ ~promptIsValid
     THEN \E fallback \in FOOD_FALLBACKS : ReturnFallback(fallback)
     ELSE imagePc' = "limiting" /\ UNCHANGED imageOutcome
  /\ UNCHANGED <<imageRetries, imageResponse, exceptImage>>

\* enforceRateLimit() resolved: let retries = 0; the first fetch is sent
rateLimitPassed ==
  /\ imagePc = "limiting"
  /\ imagePc' = "fetching"
  /\ imageRetries' = 0
  /\ UNCHANGED <<imageResponse, imageEvents, imageOutcome, exceptImage>>

\* after the while loop: if (!response || !response.ok) return getRandomFallback()
AfterLoop(latest) ==
  IF latest = "ok"
  THEN imagePc' = "json" /\ UNCHANGED imageOutcome
  ELSE \E fallback \in FOOD_FALLBACKS : ReturnFallback(fallback)

\* retries++ and the while condition
NextTry(latest) ==
  /\ imageRetries' = imageRetries + 1
  /\ IF imageRetries + 1 < imageMaxRetries
     THEN imagePc' = "fetching" /\ UNCHANGED imageOutcome
     ELSE AfterLoop(latest)

\* fetch resolved with a response of the given status
imageFetchResolves(status) ==
  /\ imagePc = "fetching"
  /\ imageResponse' = status
  /\ imageEvents' = Append(imageEvents, status)
  /\ IF status = "ok" THEN AfterLoop(status) /\ UNCHANGED imageRetries
     ELSE IF status = "429"
     THEN imagePc' = "sleeping" /\ UNCHANGED <<imageRetries, imageOutcome>>
     ELSE AfterLoop(status) /\ UNCHANGED imageRetries
  /\ UNCHANGED exceptImage

\* sleep(2000 * (retries + 1)) resolved
imageSleepResolves ==
  /\ imagePc = "sleeping"
  /\ NextTry(imageResponse)
  /\ UNCHANGED <<imageResponse, imageEvents, exceptImage>>

\* fetch rejected: the inner catch logs, response keeps its value
imageFetchRejects ==
  /\ imagePc = "fetching"
  /\ imageEvents' = Append(imageEvents, "fetch rejected")
  /\ NextTry(imageResponse)
  /\ UNCHANGED <<imageResponse, exceptImage>>

JsonBodies == {"b64_json", "url", "neither", "not json"}

\* response.json() settled
imageJsonSettles(body) ==
  /\ imagePc = "json"
  /\ imageEvents' = Append(imageEvents, body)
  /\ IF body = "b64_json"
     THEN imagePc' = "settled" /\ imageOutcome' = Resolved(Base64DataUrl)
     ELSE IF body = "url"
     THEN imagePc' = "loading" /\ UNCHANGED imageOutcome
     ELSE \E fallback \in FOOD_FALLBACKS : ReturnFallback(fallback)
  /\ UNCHANGED <<imageRetries, imageResponse, exceptImage>>

LoadEvents == {"drawn", "no context", "canvas error", "load error", "timeout"}

\* img.onload, img.onerror or the 5000 ms timer settles the promise first
imageLoadSettles(event) ==
  /\ imagePc = "loading"
  /\ imageEvents' = Append(imageEvents, event)
  /\ IF event = "drawn"
     THEN imagePc' = "settled" /\ imageOutcome' = Resolved(CanvasDataUrl)
     ELSE \E fallback \in FOOD_FALLBACKS : ReturnFallback(fallback)
  /\ UNCHANGED <<imageRetries, imageResponse, exceptImage>>


\* ---------------------------------------------------------------------------
\* generateRecipe (imageService.ts) and generateArticle (articleService.ts):
\* one call, with the two inserts it awaits.  The generation itself (the API
\* calls, the parsing, the image) is one step here; it is modelled above.
\* ---------------------------------------------------------------------------

\* supabase.from(table).insert([row]): one more row with this title
InsertRow(rows, title) == [rows EXCEPT ![title] = @ + 1]

\* storeRecipe and storeFoodArticle: the row is inserted, or the insert fails and
\* the function logs and returns null
storeRecipe(rows, title, inserted) == IF inserted THEN InsertRow(rows, title) ELSE rows
storeFoodArticle(rows, title, inserted) == IF inserted THEN InsertRow(rows, title) ELSE rows

\* the number of rows of the table
RECURSIVE RowCount(_, _)
RowCount(rows, titles) ==
  IF titles = {} THEN 0
  ELSE LET t == CHOOSE x \in titles : TRUE
       IN rows[t] + RowCount(rows, titles \ {t})

\* the call (the first, or the next one after the previous call settled): no
\* API key throws before anything is awaited.  Calls stop when the table
\* cannot take the two rows of another call.
callGenerate(kind, hasApiKey) ==
  /\ storePc \in {"idle", "settled"}
  /\ RowCount(tableRows, AllTitles) + 2 <= MaxRows
  /\ storeKind' = kind
  /\ storeItem' = NoTitle
  /\ rowsBefore' = tableRows
  /\ IF hasApiKey
     THEN storePc' = "generating" /\ storeOutcome' = "pending"
     ELSE storePc' = "settled" /\ storeOutcome' = "API key is required"
  /\ UNCHANGED <<tableRows, exceptStore>>

\* _generateSingleRecipe / _generateArticleForTopic built the item and await
\* the insert of it
generationSucceeds(title) ==
  /\ storePc = "generating"
  /\ storeItem' = title
  /\ storePc' = "storing"
  /\ UNCHANGED <<storeKind, rowsBefore, storeOutcome, tableRows, exceptStore>>

\* the rate limit, a fetch, the parsing or the validation threw: rethrown
generationFails ==
  /\ storePc = "generating"
  /\ storePc' = "settled" /\ storeOutcome' = "generation failed"
  /\ UNCHANGED <<storeKind, storeItem, rowsBefore, tableRows, exceptStore>>

\* the insert awaited inside the internal helper settles.  _generateSingleRecipe
\* throws when storeRecipe returned null; _generateArticleForTopic ignores what
\* storeFoodArticle returned.  Then the helper returns the item and the
\* exported function awaits its own insert of the same item.
innerInsertSettles(inserted) ==
  /\ storePc = "storing"
  /\ tableRows' = IF storeKind = "recipe"
                  THEN storeRecipe(tableRows, storeItem, inserted)
                  ELSE storeFoodArticle(tableRows, storeItem, inserted)
  /\ IF storeKind = "recipe" /\ ~inserted
     THEN storePc' = "settled" /\ storeOutcome' = "Failed to store recipe in database"
     ELSE storePc' = "storingAgain" /\ storeOutcome' = "pending"
  /\ UNCHANGED <<storeKind, storeItem, rowsBefore, exceptStore>>

\* the insert awaited by generateRecipe / generateArticle settles; what it
\* returned is ignored and the item is returned
outerInsertSettles(inserted) ==
  /\ storePc = "storingAgain"
  /\ tableRows' = IF storeKind = "recipe"
                  THEN storeRecipe(tableRows, storeItem, inserted)
                  ELSE storeFoodArticle(tableRows, storeItem, inserted)
  /\ storePc' = "settled" /\ storeOutcome' = "returned"
  /\ UNCHANGED <<storeKind, storeItem, rowsBefore, exceptStore>>


\* ---------------------------------------------------------------------------
\* A generateRecipes batch together with the record store: every
\* _generateSingleRecipe() that resolves has inserted its row before the task
\* looks at the title.
\* ---------------------------------------------------------------------------
exceptBatchAndTable ==
  <<parseVars, photoVars, rateVars, secondVars, chatVars, imageVars, storeVars, pageVars, listVars>>

PersistStart == StartStep /\ UNCHANGED <<tableRows, exceptBatchAndTable>>

\* _generateSingleRecipe resolved: storeRecipe returned the stored row (it
\* throws otherwise), then the task checks usedTitles
PersistGenerateSucceeds(index, title) ==
  /\ GenerateSucceedsStep(index, title)
  /\ tableRows' = storeRecipe(tableRows, title, TRUE)
  /\ UNCHANGED exceptBatchAndTable

\* _generateSingleRecipe rejected: a fetch, the parsing or the validation
\* threw before the insert, or storeRecipe returned null and no row was added
PersistGenerateFails(index) ==
  /\ GenerateFailsStep(index)
  /\ UNCHANGED <<tableRows, exceptBatchAndTable>>

PersistWake(index) == WakeStep(index) /\ UNCHANGED <<tableRows, exceptBatchAndTable>>
PersistComplete == CompleteStep /\ UNCHANGED <<tableRows, exceptBatchAndTable>>

InitPersist == InitSmall
NextPersist ==
  \/ PersistStart
  \/ \E i \in Indices, t \in Titles : PersistGenerateSucceeds(i, t)
  \/ \E i \in Indices : PersistGenerateFails(i)
  \/ \E i \in Indices : PersistWake(i)
  \/ PersistComplete
SpecPersist == InitPersist /\ [][NextPersist]_vars


\* ---------------------------------------------------------------------------
\* pages/Index.tsx: the popular recipes of the Index page.
\* fetchPopularRecipes(forceRefresh) is called once on mount (false) and by
\* the Refresh button (true); the batch it starts is the batch above, with
\* count = 4.  The generator answers every request, with a recipe titled
\* after its index.
\* ---------------------------------------------------------------------------
exceptPage ==
  <<parseVars, photoVars, rateVars, secondVars, chatVars, imageVars, storeVars, listVars>>

\* an entry of localRecipes
PageRecipe(batch, title) == [batch |-> batch, title |-> title]

\* the variables of a generateRecipes call that has not run yet
FreshSched == [currentIndex |-> 0, activePromises |-> 0,
               pc |-> [i \in Indices |-> "idle"],
               invocations |-> [i \in Indices |-> 0], promises |-> {}]

\* the tasks of the batch that are waiting for the generator
StillCalling == { i \in Indices : pc[i] = "calling" }

\* setLocalRecipes([]); await generateRecipes(4, ...), up to its
\* `await Promise.all(promises)`.  The call has its own usedTitles,
\* allGeneratedRecipes and counters; the tasks of the call before it that are
\* still in flight keep running with theirs.
NewBatch ==
  /\ localRecipes' = <<>>
  /\ batchNo' = batchNo + 1
  /\ staleCalls' = staleCalls \cup { <<batchNo, i>> : i \in StillCalling }
  /\ LET s == StartLoop(FreshSched, 0) IN
       /\ SetSched(s)
       /\ awaited' = s.promises
  /\ mainPc' = "awaiting"
  /\ attempt' = [i \in Indices |-> 0]
  /\ duplicateCount' = [i \in Indices |-> 0]
  /\ sleepMs' = [i \in Indices |-> 0]
  /\ usedTitles' = {}
  /\ allGenerated' = [i \in Indices |-> NoTitle]
  /\ generatedCalls' = [i \in Indices |-> 0]
  /\ errorCalls' = [i \in Indices |-> 0]
  /\ completeCalls' = 0
  /\ pagePc' = "generating"
  /\ UNCHANGED <<count, cache>>

\* useEffect(() => { fetchPopularRecipes(false) }, []): setIsLoadingPopularRecipes(true);
\* setPopularRecipesError(null); await getPopularRecipes(4)
PageMount ==
  /\ pagePc = "mount"
  /\ isLoadingPopularRecipes' = TRUE
  /\ popularRecipesError' = NoPageError
  /\ pagePc' = "querying"
  /\ UNCHANGED <<localRecipes, batchNo, staleCalls, tableRows, batchVars, exceptPage>>

\* the rows of the table as recipes, at most `limit` of them
RECURSIVE RowsAsRecipes(_, _)
RowsAsRecipes(rows, limit) ==
  IF limit = 0 \/ \A t \in DOMAIN rows : rows[t] = 0 THEN <<>>
  ELSE LET t == CHOOSE x \in DOMAIN rows : rows[x] > 0
       IN <<PageRecipe(0, t)>> \o RowsAsRecipes([rows EXCEPT ![t] = @ - 1], limit - 1)
\* supabase ... .limit(limit); [] when the query failed
getPopularRecipes(rows, limit, failed) ==
  IF failed THEN <<>>
  ELSE RowsAsRecipes(rows, limit)

\* getPopularRecipes(4) resolved (with [] when the query failed): show the
\* stored recipes, or generate new ones when there are none
QueryResolves(failed) ==
  /\ pagePc = "querying"
  /\ IF getPopularRecipes(tableRows, DefaultCount, failed) # <<>>
     THEN /\ localRecipes' = getPopularRecipes(tableRows, DefaultCount, failed)
          /\ isLoadingPopularRecipes' = FALSE
          /\ pagePc' = "idle"
          /\ UNCHANGED <<batchNo, staleCalls, batchVars>>
     ELSE /\ NewBatch
          /\ UNCHANGED isLoadingPopularRecipes
  /\ UNCHANGED <<popularRecipesError, tableRows, exceptPage>>

\* the Refresh button (disabled={isLoadingPopularRecipes}):
\* fetchPopularRecipes(true) up to `await deleteAllPopularRecipes()`
ClickRefresh ==
  /\ pagePc = "idle"
  /\ ~isLoadingPopularRecipes
  /\ batchNo < MaxBatches
  /\ isLoadingPopularRecipes' = TRUE
  /\ popularRecipesError' = NoPageError
  /\ pagePc' = "deleting"
  /\ UNCHANGED <<localRecipes, batchNo, staleCalls, tableRows, batchVars, exceptPage>>

\* deleteAllPopularRecipes() resolved: every row is gone; the list is cleared
\* and the next batch starts
DeleteResolves ==
  /\ pagePc = "deleting"
  /\ tableRows' = EmptyTable
  /\ NewBatch
  /\ UNCHANGED <<isLoadingPopularRecipes, popularRecipesError, exceptPage>>

\* deleteAllPopularRecipes() threw: the catch block of fetchPopularRecipes
DeleteRejects ==
  /\ pagePc = "deleting"
  /\ popularRecipesError' = <<"Failed to load popular recipes">>
  /\ isLoadingPopularRecipes' = FALSE
  /\ pagePc' = "idle"
  /\ UNCHANGED <<localRecipes, batchNo, staleCalls, tableRows, batchVars, exceptPage>>

\* a task of the current batch got its recipe (stored by _generateSingleRecipe);
\* onRecipeGenerated is (recipe) => setLocalRecipes(prev => [...prev, recipe])
PageGenerateSucceeds(index) ==
  /\ GenerateSucceedsStep(index, PageTitles[index])
  /\ tableRows' = storeRecipe(tableRows, PageTitles[index], TRUE)
  /\ localRecipes' = IF NormalizeTitle(PageTitles[index]) \notin usedTitles
                     THEN Append(localRecipes, PageRecipe(batchNo, PageTitles[index]))
                     ELSE localRecipes
  /\ UNCHANGED <<pagePc, isLoadingPopularRecipes, popularRecipesError, batchNo, staleCalls,
                 exceptPage>>

\* Promise.all resolved; onComplete is () => setIsLoadingPopularRecipes(false),
\* then generateRecipes and fetchPopularRecipes return
PageComplete ==
  /\ pagePc = "generating"
  /\ CompleteStep
  /\ isLoadingPopularRecipes' = FALSE
  /\ pagePc' = "idle"
  /\ UNCHANGED <<localRecipes, popularRecipesError, batchNo, staleCalls, tableRows, exceptPage>>

\* a task of an earlier generateRecipes call got its recipe: its title is new
\* to the usedTitles of that call, and its onRecipeGenerated calls the same
\* setLocalRecipes
StaleGenerateSucceeds(batch, index) ==
  /\ <<batch, index>> \in staleCalls
  /\ staleCalls' = staleCalls \ {<<batch, index>>}
  /\ tableRows' = storeRecipe(tableRows, PageTitles[index], TRUE)
  /\ localRecipes' = Append(localRecipes, PageRecipe(batch, PageTitles[index]))
  /\ UNCHANGED <<pagePc, isLoadingPopularRecipes, popularRecipesError, batchNo, batchVars,
                 exceptPage>>


\* ---------------------------------------------------------------------------
\* The articles page (ArticlesPage): fetchArticles(forceRefresh), called once
\* on mount (false) and by the Refresh button (true), and
\* generateArticlesFromTopics with the callbacks the page passes.  The page
\* asks for 9 articles; the model follows TopicCount of them.
\* ---------------------------------------------------------------------------

\* Array(n).fill(value)
Filled(n, value) == [k \in 1 .. n |-> value]

\* newStates[index] = false, when index < newStates.length (indices from 0)
ClearedAt(states, index) ==
  IF index < Len(states) THEN [states EXCEPT ![index + 1] = FALSE] ELSE states

\* fetchArticles up to `await getRecentArticles(9)`.  The closure is the one
\* of the render that is current, so `articles` in it is the list as it is now.
callFetchArticles(refresh) ==
  /\ forceRefresh' = refresh
  /\ closureLength' = articles
  /\ isLoading' = TRUE
  /\ articlesError' = <<>>
  /\ articlesPc' = "querying"
  /\ UNCHANGED <<articles, loadingStates, topicPc, completedCount, exceptList>>

\* useEffect(() => { fetchArticles(false) }, [])
ArticlesMount ==
  /\ articlesPc = "mount"
  /\ callFetchArticles(FALSE)

\* the Refresh button (disabled={isLoading}) and the Try Again button, shown
\* when not loading: fetchArticles(true)
ClickRefreshArticles ==
  /\ articlesPc = "idle"
  /\ ~isLoading
  /\ callFetchArticles(TRUE)

\* const dynamicTopics = generateDynamicCookingTopics(9);
\* setLoadingStates(Array(dynamicTopics.length).fill(true)); setArticles([]);
\* generateArticlesFromTopics up to `await Promise.all(...)`: every topic's
\* task has called _generateArticleForTopic
StartTopics ==
  /\ loadingStates' = Filled(TopicCount, TRUE)
  /\ articles' = 0
  /\ topicPc' = [i \in Topics |-> "pending"]
  /\ completedCount' = 0
  /\ articlesPc' = "generating"

\* getRecentArticles(9) resolved with `existing` articles
RecentResolves(existing) ==
  /\ articlesPc = "querying"
  /\ IF ~forceRefresh /\ existing = TopicCount
     THEN /\ articles' = existing
          /\ isLoading' = FALSE
          /\ loadingStates' = Filled(TopicCount, FALSE)
          /\ articlesPc' = "idle"
          /\ UNCHANGED <<topicPc, completedCount>>
     ELSE IF forceRefresh
     THEN /\ articlesPc' = "deleting"
          /\ UNCHANGED <<articles, isLoading, loadingStates, topicPc, completedCount>>
     ELSE /\ StartTopics
          /\ UNCHANGED isLoading
  /\ UNCHANGED <<forceRefresh, closureLength, articlesError, exceptList>>

\* deleteAllArticles() resolved
ArticlesDeleteResolves ==
  /\ articlesPc = "deleting"
  /\ StartTopics
  /\ UNCHANGED <<forceRefresh, closureLength, isLoading, articlesError, exceptList>>

\* deleteAllArticles() threw: the catch block of fetchArticles
ArticlesDeleteRejects ==
  /\ articlesPc = "deleting"
  /\ articlesError' = <<"Failed to load articles">>
  /\ isLoading' = FALSE
  /\ articlesPc' = "idle"
  /\ UNCHANGED <<forceRefresh, closureLength, articles, loadingStates, topicPc,
                 completedCount, exceptList>>

\* finally { completedCount++; if (completedCount === topics.length) onComplete() }
\* with onComplete = () => setIsLoading(false); after the last one Promise.all
\* resolves and fetchArticles returns
TopicFinally ==
  /\ completedCount' = completedCount + 1
  /\ IF completedCount + 1 = TopicCount
     THEN isLoading' = FALSE /\ articlesPc' = "idle"
     ELSE UNCHANGED <<isLoading, articlesPc>>

\* _generateArticleForTopic resolved for the topic: onArticleGenerated is
\*   setArticles(prev => [...prev, article]);
\*   setLoadingStates(prev => { ...; const index = articles.length;
\*                              if (index < newStates.length) newStates[index] = false; ... })
\* where `articles` is the constant of the closure
TopicSucceeds(index) ==
  /\ topicPc[index] = "pending"
  /\ topicPc' = [topicPc EXCEPT ![index] = "ok"]
  /\ articles' = articles + 1
  /\ loadingStates' = ClearedAt(loadingStates, closureLength)
  /\ TopicFinally
  /\ UNCHANGED <<forceRefresh, closureLength, articlesError, exceptList>>

\* _generateArticleForTopic rejected: onError appends `Article ${index + 1} Failed`
\* to the message and clears newStates[index]
TopicFails(index) ==
  /\ topicPc[index] = "pending"
  /\ topicPc' = [topicPc EXCEPT ![index] = "failed"]
  /\ articlesError' = Append(articlesError, index + 1)
  /\ loadingStates' = ClearedAt(loadingStates, index)
  /\ TopicFinally
  /\ UNCHANGED <<forceRefresh, closureLength, articles, exceptList>>

(***************************************************************************)
(* The parser, the photo flow and the rate limiter as specifications.      *)
(***************************************************************************)
InitParse ==
  /\ response \in Responses
  /\ parsed = NoResult
  /\ BatchIdle /\ PhotoInit /\ RateInit /\ LaterIdle
NextParse == ParseResponse
SpecParse == InitParse /\ [][NextParse]_vars

InitPhoto == PhotoInit /\ BatchIdle /\ ParseIdle /\ RateInit /\ LaterIdle
NextPhoto ==
  \/ startCapture
  \/ cancelCapture
  \/ \E photoSrc \in PhotoSources : submitPhoto(photoSrc)
  \/ \E file \in Files : handleFileUpload(file)
  \/ \E slot \in Slots : readerOnLoad(slot)
  \/ \E slot \in Slots : readerOnError(slot)
  \/ \E slot \in Slots, recipe \in AnalysisOutcomes : analyzeFoodResolves(slot, recipe)
  \/ \E slot \in Slots, message \in AnalysisErrors : analyzeFoodRejects(slot, message)
  \/ safeRecipeEffect
  \/ handleNewRecipe
SpecPhoto == InitPhoto /\ [][NextPhoto]_vars

InitRate == RateInit /\ BatchIdle /\ ParseIdle /\ PhotoInit /\ LaterIdle
NextRate ==
  \/ Tick
  \/ \E c \in Callers : enforceRateLimit(c)
  \/ \E c \in Callers : sleepResolves(c)
SpecRate == InitRate /\ [][NextRate]_vars

InitCard ==
  /\ response \in CardResponses \cup {NoResponse}
  /\ parsed = NoResult
  /\ BatchIdle /\ PhotoInit /\ RateInit
  /\ CardIdle /\ CleanIdle /\ PureIdle /\ ArticleIdle /\ ThirdIdle
NextCard ==
  \/ ParseResponse
  \/ showRecipe
  \/ \E row \in StoredRows : showPopular(row)
  \/ renderCard
SpecCard == InitCard /\ [][NextCard]_vars

\* the extractors on texts with a title label below the first line and with
\* nutrition blocks
ExtractResponses ==
  [kind : {"text"}, title : {"absent", "plain", "label", "second"},
   ingredients : {"absent", "list"}, instructions : {"absent", "numbered"},
   extra : {"none", "meta", "nutrition", "facts", "protein"},
   layout : {"lines", "unterminated", "padded"}]
InitExtract ==
  /\ response \in ExtractResponses
  /\ parsed = NoResult
  /\ BatchIdle /\ PhotoInit /\ RateInit /\ LaterIdle
SpecExtract == InitExtract /\ [][NextParse]_vars

InitClean ==
  /\ cleanInput \in CleanInputs
  /\ cleanedOnce = NotCleaned /\ cleanedTwice = NotCleaned
  /\ BatchIdle /\ ParseIdle /\ PhotoInit /\ RateInit
  /\ CardIdle /\ PureIdle /\ ArticleIdle /\ ThirdIdle
NextClean == cleanOnce \/ cleanAgain
SpecClean == InitClean /\ [][NextClean]_vars

InitPure ==
  /\ parseCalls = <<>> /\ stepsLastIndex = 0
  /\ BatchIdle /\ ParseIdle /\ PhotoInit /\ RateInit
  /\ CardIdle /\ CleanIdle /\ ArticleIdle /\ ThirdIdle
NextPure == \E r \in PureResponses : callParse(r)
SpecPure == InitPure /\ [][NextPure]_vars

InitArticle ==
  /\ ArticleIdle
  /\ BatchIdle /\ ParseIdle /\ PhotoInit /\ RateInit
  /\ CardIdle /\ CleanIdle /\ PureIdle /\ ThirdIdle
NextArticle ==
  \/ callGenerateArticle
  \/ fetchRejects
  \/ \E c \in ArticleContents : fetchResolves(c)
  \/ \E url \in {GeneratedImageUrl, FallbackImageUrl} : imageSettles(url)
SpecArticle == InitArticle /\ [][NextArticle]_vars

\* the components modelled last are idle, the named one excepted
OthersIdle(component) ==
  /\ component = "chat" \/ ChatIdle
  /\ component = "image" \/ ImageIdle
  /\ component = "store" \/ StoreIdle
  /\ component \in {"store", "page"} \/ tableRows = EmptyTable
  /\ component = "page" \/ PageIdle
  /\ component = "list" \/ ListIdle

InitChat ==
  /\ chatService \in {"expert", "chef"}
  /\ sseDeltas \in DeltaSeqs
  /\ sseUnread = StreamOf(sseDeltas)
  /\ accumulatedResponse = <<>>
  /\ lastChunk = NoChunk
  /\ BatchIdle /\ ParseIdle /\ PhotoInit /\ RateInit /\ SecondIdle /\ OthersIdle("chat")
NextChat ==
  \/ \E n \in 1 .. Len(sseUnread) : readChunk(n)
  \/ readDone
SpecChat == InitChat /\ [][NextChat]_vars

InitImage ==
  /\ ImageIdle
  /\ BatchIdle /\ ParseIdle /\ PhotoInit /\ RateInit /\ SecondIdle /\ OthersIdle("image")
NextImage ==
  \/ \E hasApiKey \in BOOLEAN, promptIsValid \in BOOLEAN :
       callGenerateImage(hasApiKey, promptIsValid)
  \/ rateLimitPassed
  \/ \E status \in {"ok", "429", "500"} : imageFetchResolves(status)
  \/ imageSleepResolves
  \/ imageFetchRejects
  \/ \E body \in JsonBodies : imageJsonSettles(body)
  \/ \E event \in LoadEvents : imageLoadSettles(event)
SpecImage == InitImage /\ [][NextImage]_vars

InitStore ==
  /\ tableRows \in {EmptyTable, [t \in AllTitles |-> IF t = <<"b">> THEN 1 ELSE 0]}
  /\ storeKind = "recipe"
  /\ storePc = "idle" /\ storeItem = NoTitle
  /\ rowsBefore = tableRows /\ storeOutcome = "pending"
  /\ BatchIdle /\ ParseIdle /\ PhotoInit /\ RateInit /\ SecondIdle /\ OthersIdle("store")
NextStore ==
  \/ \E kind \in {"recipe", "article"}, hasApiKey \in BOOLEAN : callGenerate(kind, hasApiKey)
  \/ \E title \in Titles : generationSucceeds(title)
  \/ generationFails
  \/ \E inserted \in BOOLEAN : innerInsertSettles(inserted)
  \/ \E inserted \in BOOLEAN : outerInsertSettles(inserted)
SpecStore == InitStore /\ [][NextStore]_vars

InitIndex ==
  /\ BatchInit /\ count = DefaultCount
  /\ tableRows \in { EmptyTable,
                     [t \in AllTitles |-> IF t = <<"b">> THEN 1 ELSE 0],
                     [t \in AllTitles |-> IF t \in Titles THEN 2 ELSE 0] }
  /\ PageIdle
  /\ ParseIdle /\ PhotoInit /\ RateInit /\ SecondIdle /\ OthersIdle("page")
NextIndex ==
  \/ PageMount
  \/ \E failed \in BOOLEAN : QueryResolves(failed)
  \/ ClickRefresh
  \/ DeleteResolves
  \/ DeleteRejects
  \/ \E i \in Indices : PageGenerateSucceeds(i)
  \/ PageComplete
  \/ \E b \in 1 .. MaxBatches, i \in Indices : StaleGenerateSucceeds(b, i)
SpecIndex == InitIndex /\ [][NextIndex]_vars

InitList ==
  /\ ListIdle
  /\ BatchIdle /\ ParseIdle /\ PhotoInit /\ RateInit /\ SecondIdle /\ OthersIdle("list")
NextList ==
  \/ ArticlesMount
  \/ ClickRefreshArticles
  \/ \E existing \in 0 .. TopicCount : RecentResolves(existing)
  \/ ArticlesDeleteResolves
  \/ ArticlesDeleteRejects
  \/ \E i \in Topics : TopicSucceeds(i)
  \/ \E i \in Topics : TopicFails(i)
SpecList == InitList /\ [][NextList]_vars

(***************************************************************************)
(* Claims about the batch.                                                 *)
(***************************************************************************)
Started == 0 .. (count - 1)

InFlight == Cardinality({ i \in Indices : pc[i] \in {"calling", "sleeping"} })

\* C1: the number of single-item generation tasks that have started and not yet
\* finished never exceeds concurrentLimit.
C1_InFlightWithinLimit == InFlight <= concurrentLimit

\* C2: onComplete is invoked at most once, and only when every index
\* 0..count-1 has finished and has had its onGenerated or onError callback.
C2_CompleteAfterAllOutcomes ==
  /\ completeCalls <= 1
  /\ completeCalls >= 1 =>
       \A i \in Started : pc[i] = "done" /\ generatedCalls[i] + errorCalls[i] >= 1

\* C8: an index's generator is called at most maxRetries times; failed attempt
\* k < maxRetries is followed by sleep(1000 * k) and the next call is made only
\* once that sleep has resolved; the maxRetries-th failed attempt ends the task
\* with one call of the error callback and no sleep.
C8_RetryStep ==
  \A i \in Indices :
    /\ invocations'[i] <= maxRetries
    /\ pc'[i] = "calling" => sleepMs'[i] = 0
    /\ invocations'[i] > invocations[i] => pc[i] \in {"idle", "sleeping"}
    /\ GenerateFails(i) =>
         IF invocations[i] < maxRetries
         THEN /\ pc'[i] = "sleeping"
              /\ sleepMs'[i] = FailureBackoffMs * invocations[i]
              /\ errorCalls'[i] = errorCalls[i]
         ELSE /\ pc'[i] = "done"
              /\ sleepMs'[i] = 0
              /\ errorCalls'[i] = errorCalls[i] + 1
C8_BoundedRetriesLinearBackoff == [][C8_RetryStep]_vars

\* C8 witness: one index reported its failure, another backs off after its
\* fourth failed attempt
C8_Witness ==
  /\ \E i \in Indices : errorCalls[i] = 1
  /\ \E i \in Indices : pc[i] = "sleeping" /\ sleepMs[i] = FailureBackoffMs * 4

Delivered == { i \in Indices : allGenerated[i] # NoTitle }

\* C10: the titles delivered through onGenerated are pairwise distinct after
\* lower-casing and trimming.
C10_DeliveredTitlesDistinct ==
  \A i, j \in Delivered :
    i # j => Trim(ToLowerCase(allGenerated[i])) # Trim(ToLowerCase(allGenerated[j]))

\* C10 witness: two items were delivered and a third generation collided
C10_Witness ==
  /\ Cardinality(Delivered) >= 2
  /\ \A i \in Delivered : generatedCalls[i] = 1
  /\ \E i \in Indices : duplicateCount[i] >= 1

(***************************************************************************)
(* Claims about parseRecipeFromResponse.                                   *)
(***************************************************************************)
Called == parsed.path # "none"

\* C3: for every input string, the empty and the whitespace-only ones included,
\* parseRecipeFromResponse returns a recipe without throwing, and the title of
\* the recipe is a non-empty string.
C3_ReturnsRecipeWithTitle ==
  Called => ~parsed.threw /\ parsed.recipe.title # <<>>
\* the empty string has been parsed, and the title is the default of the heuristics
C3_Witness ==
  /\ Called
  /\ ResponseText(response) = <<>>
  /\ parsed.recipe.title = HomemadeDish

CarriesRequiredFields ==
  /\ response.kind = "json"
  /\ response.title # "absent"
  /\ response.ingredients # "absent" \/ response.instructions # "absent"

\* C6: when the trimmed response starts with '{' and ends with '}', parses as
\* JSON and carries a title plus ingredients or instructions, the recipe is built
\* from the JSON fields and fixed defaults, and no heuristic extractor is invoked.
C6_JsonFieldsOnly ==
  Called /\ CarriesRequiredFields => parsed.path = "json"

\* the response is JSON-shaped and does not parse, or parses and lacks a title or
\* lacks both ingredients and instructions
LacksRequiredFields ==
  \/ response.kind = "broken"
  \/ /\ response.kind = "json"
     /\ \/ response.title = "absent"
        \/ response.ingredients = "absent" /\ response.instructions = "absent"

\* C7: when a JSON-shaped response fails to parse, or parses but lacks a title
\* or lacks both ingredients and instructions, parseRecipeFromResponse raises no
\* error and returns the result of the heuristic extractors on the same text.
C7_FallsBackToHeuristics ==
  Called /\ LacksRequiredFields =>
    /\ ~parsed.threw
    /\ parsed.path = "heuristic"
    /\ parsed.recipe = HeuristicRecipe(ResponseText(response)).v
\* a JSON object with a trailing comma has been parsed by the heuristics
C7_Witness ==
  /\ response.kind = "broken"
  /\ response.title = "string"
  /\ parsed.path = "heuristic"
  /\ ~parsed.threw

C9_ReleasesSpaced ==
  \A i, j \in DOMAIN releases : i < j => releases[j] - releases[i] >= minDelay

Rendered == processedResult # NotRendered
Items == processedResult[1].v
ShownInstructions == cardInstructions[1]

\* C12: everything from the first metadata label followed by a colon is
\* discarded from the instructions: no extracted step holds such a label, and
\* for a block ending in "5. Serve warm. Cooking Time: 20 mins Servings: 4" the
\* content of the last step shown is exactly "Serve warm.".
C12_MetadataDiscarded ==
  /\ parsed.path = "heuristic" =>
       \A j \in DOMAIN parsed.recipe.instructions :
         ~RegTest(metadataRegex, parsed.recipe.instructions[j])
  /\ Rendered /\ response.instructions = "serve" =>
       /\ ~processedResult[1].threw
       /\ Items # <<>>
       /\ Items[Len(Items)].content = <<"Serve", " ", "warm", ".">>
C12_Witness ==
  /\ Rendered
  /\ response.instructions = "serve"
  /\ parsed.recipe.instructions = <<<<"4", ".", " ", "Bake", ".">>, <<"5", ".", " ", "Serve", " ", "warm", ".">>>>

\* C13: step numbers are the numbers written in the text: the steps of
\* "1. Mix." followed by "3. Bake." carry stepNumber 1 and 3 and are shown as
\* 1 and 3, and every numbered step is shown with the number it begins with.
C13_StepNumbersVerbatim ==
  Rendered /\ ~processedResult[1].threw =>
    /\ \A j \in DOMAIN Items :
         Items[j].hasLeadingNumber =>
           /\ Items[j].stepNumber = <<ParseInt(Head(Items[j].originalText))>>
           /\ displayNumber(Items, j) = ParseInt(Head(Items[j].originalText))
    /\ response.instructions = "gapped" =>
         /\ Len(Items) = 2
         /\ Items[1].stepNumber = <<1>> /\ Items[2].stepNumber = <<3>>
         /\ displayNumber(Items, 1) = 1 /\ displayNumber(Items, 2) = 3
C13_Witness ==
  /\ Rendered
  /\ response.instructions = "gapped"
  /\ ShownInstructions = <<<<"1", ".", " ", "Mix", ".">>, <<"3", ".", " ", "Bake", ".">>>>

\* C14: for a recipe with an empty instruction list the memo yields the empty
\* sequence: no error entry and no exception.
C14_EmptyListGivesEmptySequence ==
  Rendered /\ ShownInstructions = <<>> => processedResult[1] = Returned(<<>>)

\* C15: the single isError entry is returned only for a list of exactly one
\* entry that holds a sentinel phrase; a list of two or more entries is
\* processed entry by entry and none of the results is flagged isError.
C15_ErrorEntryOnlyForSingleSentinel ==
  Rendered /\ ~processedResult[1].threw =>
    /\ (\E j \in DOMAIN Items : Items[j].isError) =>
         /\ Len(ShownInstructions) = 1
         /\ \/ Includes(ShownInstructions[1], CouldNotBeDetected)
            \/ Includes(ShownInstructions[1], NoInstructionsDetected)
    /\ Len(ShownInstructions) >= 2 =>
         /\ Items = MapProcess(filteredInstructions(ShownInstructions))
         /\ \A j \in DOMAIN Items : ~Items[j].isError

(***************************************************************************)
(* Claims about the heuristic extractors.                                  *)
(***************************************************************************)
\* one of calories, protein, carbs or fat is matched in the text
CoreMacroMatched(text) ==
  \/ RegTest(caloriesPattern, text) \/ RegTest(proteinPattern, text)
  \/ RegTest(carbsPattern, text) \/ RegTest(fatPattern, text)

\* C16: extractMacros returns an object only if calories, protein, carbs or fat
\* was matched in the text, and null otherwise, with or without a nutrition
\* header: it never returns an object whose four values are all 0 by default.
C16_MacrosOnlyWhenMatched ==
  parsed.path = "heuristic" =>
    IF CoreMacroMatched(ResponseText(response))
    THEN parsed.recipe.macros.t = "object"
    ELSE parsed.recipe.macros = Null

\* C17: for a text with the first line "Bar" and a line "Title: Foo", the
\* title is "Foo": the label has priority over the first line.
C17_LabelBeforeFirstLine ==
  Called /\ response.title = "second" => parsed.recipe.title = <<"Foo">>

\* C18: cleanMarkdown is idempotent: cleanMarkdown(cleanMarkdown(s)) is
\* cleanMarkdown(s) for every string s.
C18_CleanIdempotent == cleanedTwice # NotCleaned => cleanedTwice = cleanedOnce

NormalizationSources == {"parse", "fields", "type"}
\* the content is JSON (possibly fenced) with title, content and summary
WellFormed(c) ==
  /\ c.kind \in {"json", "fenced"}
  /\ c.title \in {"string", "number"}
  /\ c.summary = "string"
  /\ c.content = "string"

RECURSIVE SentText(_)
\* the content deltas the server sent, decoded and concatenated in order
SentText(deltas) ==
  IF deltas = <<>> THEN <<>>
  ELSE [j \in DOMAIN Head(deltas) |-> DecodeLexeme(Head(deltas)[j])] \o SentText(Tail(deltas))

\* C21: the text delivered to onChunk with done = true is the formatted
\* concatenation of every content delta the server sent, in order, however the
\* SSE byte stream is split into read chunks.
C21_FinalTextHasEveryDelta ==
  lastChunk.done =>
    lastChunk.text = FinalText(chatService, SentText(sseDeltas))

(***************************************************************************)
(* Claims about the cache and the outcomes of a batch.                     *)
(***************************************************************************)
\* Promise.all has resolved and every task function has returned
BatchOver == mainPc = "complete" /\ \A i \in Started : pc[i] = "done"

\* the items handed to onGenerated in this batch
DeliveredItems == { allGenerated[i] : i \in { j \in Indices : generatedCalls[j] >= 1 } }

\* C23: once the batch is over, the cache entry holds exactly the items
\* delivered through the onGenerated callback in that batch, and the cache is
\* left unchanged if none was delivered.
C23_CacheHoldsDelivered ==
  BatchOver => cache = (IF DeliveredItems = {} THEN NoCache ELSE DeliveredItems)

Outcomes(i) == generatedCalls[i] + errorCalls[i]

\* C24: every index 0..count-1 eventually receives exactly one outcome, either
\* one onGenerated call or one onError call, never both and never more than one.
C24_ExactlyOneOutcome ==
  /\ [](\A i \in Indices : Outcomes(i) <= 1)
  /\ <>(\A i \in Started : Outcomes(i) = 1)
\* C24 witness: in a batch of more than concurrentLimit + 1 items every index
\* has its outcome, some a generated item and some an error
C24_Witness ==
  /\ count > concurrentLimit + 1
  /\ \A i \in Started : Outcomes(i) = 1
  /\ \E i \in Started : generatedCalls[i] = 1
  /\ \E i \in Started : errorCalls[i] = 1

(***************************************************************************)
(* Claims about the state of usePhotoCapture after an analysis.            *)
(***************************************************************************)
\* the processPhoto call of the slot settles in this step
Settles(slot) == uploads[slot].pc = "analysing" /\ uploads'[slot].pc = "idle"

\* C25: once a processPhoto call has settled with no other processPhoto call
\* in flight, isProcessing is false and exactly one of recipeData and error is
\* non-null.
C25_ExactlyOneOfRecipeAndError ==
  [][\A slot \in Slots :
       Settles(slot) /\ (\A other \in Slots : uploads'[other].pc # "analysing") =>
         /\ ~isProcessing'
         /\ (recipeData' # NoRecipe) # (error' # NoError)]_vars

\* C26: the outcome that is applied to recipeData or error is the outcome of
\* analysing the current photo, never that of an analysis started before reset()
\* or before a later processPhoto call.
C26_OnlyCurrentPhotoApplied ==
  [][\A slot \in Slots : Settles(slot) => photo = uploads[slot].photoSrc]_vars

(***************************************************************************)
(* Claims about generateImageFromPrompt.                                   *)
(***************************************************************************)
\* the API call failed (no response with an ok status after the retries) or
\* its response was invalid (not JSON, or JSON with neither b64_json nor url)
ApiFailedOrInvalid ==
  /\ imageEvents # <<>>
  /\ imageEvents[Len(imageEvents)] \in {"429", "500", "fetch rejected", "neither", "not json"}

\* C22: generateImageFromPrompt rejects with ImageGenerationError if the image
\* API call fails or its response is invalid.
C22_FailureRejects ==
  imagePc = "settled" /\ ApiFailedOrInvalid =>
    imageOutcome = [kind |-> "rejected", value |-> <<"ImageGenerationError">>]


\* ---------------------------------------------------------------------------
\* generateRecipe / generateArticle and the record store
\* ---------------------------------------------------------------------------

\* the rows the call inserted with the title of the generated item
RowsInserted == tableRows[storeItem] - rowsBefore[storeItem]

\* C27: each successful call of generateArticle (and of generateRecipe) inserts
\* exactly one row for the generated item into the record store.
C27_ExactlyOneRowPerCall ==
  storeOutcome = "returned" => RowsInserted = 1


\* ---------------------------------------------------------------------------
\* the rows a generateRecipes batch leaves in the record store
\* ---------------------------------------------------------------------------
RECURSIVE DeliveredCount(_)
DeliveredCount(indices) ==
  IF indices = {} THEN 0
  ELSE LET i == CHOOSE x \in indices : TRUE
       IN generatedCalls[i] + DeliveredCount(indices \ {i})

\* C28: during a generateRecipes batch a recipe is persisted in the record
\* store only if it is delivered through onRecipeGenerated: there are never
\* more rows than deliveries, so a generation rejected as a duplicate title
\* leaves no row behind.
C28_RowsOnlyForDelivered ==
  RowCount(tableRows, AllTitles) <= DeliveredCount(Indices)


\* ---------------------------------------------------------------------------
\* the popular recipes of the Index page
\* ---------------------------------------------------------------------------

\* C29: on the Index page the popular-recipes list never holds more than 4
\* recipes, and no recipe from an earlier generation batch is appended after a
\* refresh has cleared the list, for every sequence of initial load and Refresh
\* clicks: every recipe of the list is of the latest batch.
C29_ListOfCurrentBatchOnly ==
  /\ Len(localRecipes) <= DefaultCount
  /\ \A k \in DOMAIN localRecipes : localRecipes[k].batch = batchNo


\* ---------------------------------------------------------------------------
\* the loading placeholders of the articles page
\* ---------------------------------------------------------------------------

\* onComplete of the latest generateArticlesFromTopics call has run
OnCompleteInvoked == articlesPc = "idle" /\ completedCount = TopicCount

\* C30: on the articles page, once generateArticlesFromTopics has invoked
\* onComplete (isLoading becomes false), every entry of loadingStates is false,
\* so no loading placeholder remains displayed, whatever mix of successes and
\* failures occurred and whether the run was the initial load or a refresh.
C30_NoPlaceholderAfterComplete ==
  OnCompleteInvoked => \A k \in DOMAIN loadingStates : ~loadingStates[k]

====
